---- MODULE Spec2Model ----
(***************************************************************************)
(* State-machine model of the world server.                                *)
(*                                                                         *)
(* Two parts of the repository are modelled, each under its own            *)
(* specification:                                                          *)
(*   SpecGS     the GameServer class with its start-up, session handling   *)
(*              and maintenance interval (src/unnamed/part_002);           *)
(*   SpecStore  the object store of src/server.js: loadData / saveData     *)
(*              over the persisted objects.txt.                            *)
(* Every variable is declared once; a specification leaves the variables   *)
(* of the other part unchanged.                                            *)
(***************************************************************************)
EXTENDS Integers, Sequences, FiniteSets, TLC

VARIABLES
    \* ---- GameServer (src/unnamed/part_002) ----
    now,             \* Date.now()
    listening,       \* the WebSocketServer has been created (line 37)
    connectedHook,   \* server.on("connected", ...) has been registered (line 309)
    loadIdx,         \* number of persisted objects loadObjects has registered
    objects,         \* the module's objects Map, in insertion order
    diskClients,     \* files <dataDir>/client/<id>-<secret>.json
    usedIds,         \* this.usedIds (keys)
    heap,            \* client objects by reference: ref -> [id, secret, lastSeen]
    clients,         \* this.clients: id -> ref, in insertion order
    clientBySecret,  \* this.clientBySecret: secret -> ref
    wsByClient,      \* this.wsByClient: ref -> ws
    bufferByClient,  \* this.bufferByClient: ref -> queued JSON messages
    sockets,         \* ws -> [readyState, secret]
    sent,            \* ws -> frames handed to ws.send, oldest first
    pendingInits,    \* handleInit calls waiting for their directory read
    inits,           \* number of init messages received so far
    \* observations of the run (never read by the server)
    generated,       \* the strings generateId has returned in this run
    lastInit,        \* what the last completed handleInit was given and did
    emitted,         \* client ids for which "clientDisconnect" was emitted
    \* the process of part_002 and its exit handlers
    exited,          \* the process has exited
    saves,           \* the object trees exitHandler has persisted, oldest first
    \* ---- object store (src/server.js) ----
    fileExists,      \* data/objects.txt exists
    objectsTxt,      \* its lines
    storePhase,      \* where initialise() is: loading, loaded, serving, crashed
    pos,             \* lines loadData has read
    parentStack,     \* loadData's parentStack: indent level -> object
    id_object,       \* state.id_object
    id_parentId,     \* state.id_parentId
    id_contentIds,   \* state.id_contentIds
    id_dirty,        \* state.id_dirty, in insertion order
    root,            \* state.root: the object, or NoObj for null
    runs,            \* process starts so far
    savedStore,      \* observation: the store the last completed save wrote out
    stream,          \* saveData's write stream: none, pending, open, done, lost
    savePending,     \* lines handed to the stream and not yet in the file
    fileBefore,      \* observation: the file as it was when saveData was called
    \* ---- socket manager (src/socketManager.js) ----
    smNow,           \* Date.now()
    smSockets,       \* ws -> readyState
    smClients,       \* clients: clientId -> [ws, lastSeen, batchedMessages], in order
    wsToClientId,    \* wsToClientId: ws -> clientId
    smSent,          \* frames sent on each ws
    smReceived,      \* messages received so far
    \* ---- client manager (src/unnamed/part_000) ----
    cmNow,           \* Date.now()
    cmRunning,       \* the process has not died of an uncaught exception
    cmWebSocket,     \* the runtime defines the global WebSocket the module reads
    cmSockets,       \* ws -> readyState
    cmClients,       \* clients: clientId -> client, in insertion order
    cmWsToClientId,  \* wsToClientId: ws -> clientId
    secretToClientId,\* secretToClientId: clientSecret -> clientId
    cmDisk,          \* data/client/client-<secret>.json: secret -> its content
    cmSent,          \* frames sent on each ws
    cmReceived,      \* messages received so far
    cmAccounts,      \* accounts (src/main.js): accountId -> [name, isNew]
    \* observation of the run (never read by the client manager)
    cmHandled,       \* the handlers of allHandlers invoked so far, oldest first
    cmEvicted,       \* clientSecret -> the accountId its client had when evicted
    \* ---- GameServer, frame by frame (src/unnamed/part_002, lines 61-154) ----
    frRuntime,       \* what the runtime does with an unhandled rejection
    frRunning,       \* the process has not exited
    frDisk,          \* files <dataDir>/client/<id>-<secret>.json
    frUsedIds,       \* this.usedIds (keys)
    frHeap,          \* client objects by reference: ref -> [id, secret]
    frClients,       \* this.clients: id -> ref
    frBySecret,      \* this.clientBySecret: secret -> ref
    frWsByClient,    \* this.wsByClient: ref -> ws
    frBuffers,       \* this.bufferByClient: ref -> queued JSON messages
    frWsSecret,      \* ws.secret of each transport
    frPending,       \* handleInit calls waiting for their directory read
    \* observations of the run (never read by the server)
    frFrames,        \* the frames received so far: [ws, subs], oldest first
    frEmitted,       \* this.emit(message.type, ...) calls of handleMessage, in order
    frDropped,       \* sub-messages handleMessage gave up as unresolvable
    frRejected,      \* sub-messages whose callback ended in a rejected promise
    \* ---- clients of src/server.js (lines 350-367, 447-512) ----
    svRuntime,       \* what the runtime does with an unhandled rejection
    svRunning,       \* the process has not died
    svNow,           \* Date.now()
    secret_object,   \* state.secret_object: secret -> [id, secret, lastSeen]
    secret_object_connected, \* state.secret_object_connected: secret -> id
    id_buffer,       \* state.id_buffer: id -> queued JSON messages
    id_ws,           \* state.id_ws: id -> ws
    svWsSecret,      \* ws.secret of each transport
    svReceived,      \* frames received so far
    svEmitted,       \* events.emit(message.type, ...) calls, with what client was
    \* ---- GameServer of src/unnamed/part_001 ----
    p1Clients,       \* this.clients: id -> [id, secret], filled by loadAllData only
    p1Disk,          \* files <dataDir>/client/<id>.json: id -> [id, secret]
    p1Sent,          \* frames sent on each ws
    p1Resolved       \* observation: per ws, the client each message resolved to

gsVars == <<now, listening, connectedHook, loadIdx, objects, diskClients, usedIds,
            heap, clients, clientBySecret, wsByClient, bufferByClient, sockets,
            sent, pendingInits, inits, generated, lastInit, emitted>>
storeVars == <<fileExists, objectsTxt, storePhase, pos, parentStack, id_object,
               id_parentId, id_contentIds, id_dirty, root, runs, savedStore,
               stream, savePending, fileBefore>>
saveVars == <<stream, savePending, fileBefore>>
smVars == <<smNow, smSockets, smClients, wsToClientId, smSent, smReceived>>
cmVars == <<cmNow, cmRunning, cmWebSocket, cmSockets, cmClients, cmWsToClientId,
            secretToClientId, cmDisk, cmSent, cmReceived, cmAccounts, cmHandled,
            cmEvicted>>
exitVars == <<exited, saves>>
frVars == <<frRuntime, frRunning, frDisk, frUsedIds, frHeap, frClients, frBySecret,
            frWsByClient, frBuffers, frWsSecret, frPending, frFrames, frEmitted,
            frDropped, frRejected>>
svVars == <<svRuntime, svRunning, svNow, secret_object, secret_object_connected,
            id_buffer, id_ws, svWsSecret, svReceived, svEmitted>>
p1Vars == <<p1Clients, p1Disk, p1Sent, p1Resolved>>
notGSVars == <<storeVars, smVars, cmVars, exitVars, frVars, svVars, p1Vars>>
notStoreVars == <<gsVars, smVars, cmVars, exitVars, frVars, svVars, p1Vars>>
notSMVars == <<gsVars, storeVars, cmVars, exitVars, frVars, svVars, p1Vars>>
notCMVars == <<gsVars, storeVars, smVars, exitVars, frVars, svVars, p1Vars>>
notFrVars == <<gsVars, storeVars, smVars, cmVars, exitVars, svVars, p1Vars>>
notSvVars == <<gsVars, storeVars, smVars, cmVars, exitVars, frVars, p1Vars>>
notP1Vars == <<gsVars, storeVars, smVars, cmVars, exitVars, frVars, svVars>>
vars == <<gsVars, storeVars, smVars, cmVars, exitVars, frVars, svVars, p1Vars>>

NULL == "null"

(***************************************************************************)
(* Bounds of the model.                                                    *)
(***************************************************************************)
MaxWs == 2            \* connections accepted during a run
MaxClockSteps == 2    \* how often the clock advances
MaxInits == 2         \* init messages received during a run
MaxLines == 3         \* lines of objects.txt when the first run starts
MaxRuns == 2          \* process starts
MaxMessages == 3      \* messages the socket manager receives during a run

(***************************************************************************)
(* Program constants.                                                      *)
(***************************************************************************)
KeepAliveTimeout == 30000
TickInterval == 2000
\* The clock advances in steps that are shorter than the timeout, while two
\* such steps exceed it.
ClockStep == (KeepAliveTimeout \div 2) + TickInterval

WsIds == 1 .. MaxWs

\* The strings Math.random().toString(36).substring(2, 6) may return.
IdPool == {"c1", "s1", "a1", "k1"}

\* data/objects as loadObjects walks it (pre-order): type, id, parent.
DiskObjects == << [type |-> "world", id |-> "w0", parent |-> NULL],
                  [type |-> "area", id |-> "a1", parent |-> "w0"] >>

\* A secret a client made up.
BogusSecret == "zz"

\* What data/client may hold when the process starts: nothing, or a client an
\* earlier run persisted.
PersistedClientSets == { {}, {[id |-> "c1", secret |-> "s1"]} }

(***************************************************************************)
(* A JavaScript Map that is iterated: a sequence of entries in insertion   *)
(* order.                                                                  *)
(***************************************************************************)
MapHas(m, key) == \E i \in DOMAIN m : m[i].k = key
MapGet(m, key) == m[CHOOSE i \in DOMAIN m : m[i].k = key].v
MapSet(m, key, val) ==
    IF MapHas(m, key)
    THEN [i \in DOMAIN m |-> IF m[i].k = key THEN [k |-> key, v |-> val] ELSE m[i]]
    ELSE Append(m, [k |-> key, v |-> val])
MapDelete(m, key) == SelectSeq(m, LAMBDA e : e.k # key)

\* A Map that is only looked up: a function. Set and delete on it.
EmptyFn == [x \in {} |-> NULL]
FnSet(f, key, val) == [x \in (DOMAIN f) \cup {key} |-> IF x = key THEN val ELSE f[x]]
FnDelete(f, key) == [x \in (DOMAIN f) \ {key} |-> f[x]]

(***************************************************************************)
(* Messages, as the JSON the server stringifies.                           *)
(***************************************************************************)
InitResponse(clientId, clientSecret, rejoin) ==
    [type |-> "init", clientId |-> clientId, clientSecret |-> clientSecret,
     rejoin |-> rejoin, content |-> NULL, o |-> <<>>]
WelcomeMessage(clientId, isNew) ==
    [type |-> "message", clientId |-> clientId, clientSecret |-> NULL,
     rejoin |-> FALSE, content |-> IF isNew THEN "Welcome" ELSE "Welcome back",
     o |-> <<>>]
\* updateObjectStreamJSON: o is "<type>-<id>" with "-<parent>" appended when
\* the object has a parent.
StreamJSON(object) ==
    [type |-> "object", clientId |-> NULL, clientSecret |-> NULL, rejoin |-> FALSE,
     content |-> NULL,
     o |-> IF object.parent # NULL
           THEN <<object.type, object.id, object.parent>>
           ELSE <<object.type, object.id>>]

\* The object store's Maps as one value.
NoObj == <<>>         \* state.root before any object is its root: null
StoreOf(objs, parents, contents, rt) ==
    [id_object |-> objs, id_parentId |-> parents, id_contentIds |-> contents,
     root |-> rt]
NoStore == StoreOf(EmptyFn, EmptyFn, EmptyFn, NoObj)
NoFile == [exists |-> FALSE, lines |-> <<>>]

\* The observations before any init and before any tick.
NoInit == [done |-> FALSE, ws |-> 0, secret |-> NULL, clientId |-> NULL,
           rejoin |-> FALSE, isNew |-> FALSE, prior |-> "none", hooked |-> FALSE,
           queued |-> <<>>]

(***************************************************************************)
(* GameServer: start-up.                                                   *)
(***************************************************************************)
GSInit ==
    /\ exited = FALSE
    /\ saves = <<>>
    /\ now = 0
    /\ listening = FALSE
    /\ connectedHook = FALSE
    /\ loadIdx = 0
    /\ objects = <<>>
    /\ diskClients \in PersistedClientSets
    /\ usedIds = {}
    /\ heap = EmptyFn
    /\ clients = <<>>
    /\ clientBySecret = EmptyFn
    /\ wsByClient = EmptyFn
    /\ bufferByClient = EmptyFn
    /\ sockets = [w \in WsIds |-> [readyState |-> "NONE", secret |-> NULL]]
    /\ sent = [w \in WsIds |-> <<>>]
    /\ pendingInits = {}
    /\ inits = 0
    /\ generated = {}
    /\ lastInit = NoInit
    /\ emitted = {}

\* The GameServer of part_002 does not use the store of server.js.
StoreIdle ==
    /\ fileExists = FALSE
    /\ objectsTxt = <<>>
    /\ storePhase = "off"
    /\ pos = 0
    /\ parentStack = EmptyFn
    /\ id_object = EmptyFn
    /\ id_parentId = EmptyFn
    /\ id_contentIds = EmptyFn
    /\ id_dirty = <<>>
    /\ root = NoObj
    /\ runs = 0
    /\ savedStore = NoStore
    /\ stream = "none"
    /\ savePending = <<>>
    /\ fileBefore = NoFile

\* The socket manager of src/socketManager.js is not part of these programs.
SMIdle ==
    /\ smNow = 0
    /\ smSockets = [w \in WsIds |-> "NONE"]
    /\ smClients = <<>>
    /\ wsToClientId = EmptyFn
    /\ smSent = [w \in WsIds |-> <<>>]
    /\ smReceived = 0

\* The client manager before any connection, with nothing on disk.
CMIdle ==
    /\ cmNow = 0
    /\ cmRunning = TRUE
    /\ cmWebSocket = TRUE
    /\ cmSockets = [w \in WsIds |-> "NONE"]
    /\ cmClients = <<>>
    /\ cmWsToClientId = EmptyFn
    /\ secretToClientId = EmptyFn
    /\ cmDisk = EmptyFn
    /\ cmSent = [w \in WsIds |-> <<>>]
    /\ cmReceived = 0
    /\ cmAccounts = EmptyFn
    /\ cmHandled = <<>>
    /\ cmEvicted = EmptyFn

\* The frame-by-frame GameServer before any frame, with nothing on disk.
FrIdle ==
    /\ frRuntime = "warn"
    /\ frRunning = TRUE
    /\ frDisk = {}
    /\ frUsedIds = {}
    /\ frHeap = EmptyFn
    /\ frClients = EmptyFn
    /\ frBySecret = EmptyFn
    /\ frWsByClient = EmptyFn
    /\ frBuffers = EmptyFn
    /\ frWsSecret = [w \in WsIds |-> NULL]
    /\ frPending = {}
    /\ frFrames = <<>>
    /\ frEmitted = <<>>
    /\ frDropped = {}
    /\ frRejected = {}

\* The clients of src/server.js before any frame.
SvIdle ==
    /\ svRuntime = "warn"
    /\ svRunning = TRUE
    /\ svNow = 0
    /\ secret_object = EmptyFn
    /\ secret_object_connected = EmptyFn
    /\ id_buffer = EmptyFn
    /\ id_ws = EmptyFn
    /\ svWsSecret = [w \in WsIds |-> NULL]
    /\ svReceived = 0
    /\ svEmitted = <<>>

\* The GameServer of part_001 before any message, with nothing on disk.
P1Idle ==
    /\ p1Clients = EmptyFn
    /\ p1Disk = EmptyFn
    /\ p1Sent = [w \in WsIds |-> <<>>]
    /\ p1Resolved = [w \in WsIds |-> <<>>]

\* The constructor's async block: the ids (not the secrets) of the persisted
\* clients go into usedIds, then the WebSocket server and the maintenance
\* interval are created.
StartServer ==
    /\ ~listening
    /\ usedIds' = usedIds \cup {c.id : c \in diskClients}
    /\ listening' = TRUE
    /\ UNCHANGED <<now, connectedHook, loadIdx, objects, diskClients, heap, clients,
                   clientBySecret, wsByClient, bufferByClient, sockets, sent,
                   pendingInits, inits, generated, lastInit, emitted>>
    /\ UNCHANGED notGSVars

\* One object of loadObjects: registered in objects and in usedIds. After the
\* last one the top level goes on and registers the "connected" listener.
LoadObject ==
    /\ loadIdx < Len(DiskObjects)
    /\ LET object == DiskObjects[loadIdx + 1] IN
        /\ objects' = MapSet(objects, object.id, object)
        /\ usedIds' = usedIds \cup {object.id}
    /\ loadIdx' = loadIdx + 1
    /\ connectedHook' = (loadIdx + 1 = Len(DiskObjects))
    /\ UNCHANGED <<now, listening, diskClients, heap, clients, clientBySecret,
                   wsByClient, bufferByClient, sockets, sent, pendingInits, inits, generated, lastInit, emitted>>
    /\ UNCHANGED notGSVars

ClockAdvance ==
    /\ now < MaxClockSteps * ClockStep
    /\ now' = now + ClockStep
    /\ UNCHANGED <<listening, connectedHook, loadIdx, objects, diskClients, usedIds,
                   heap, clients, clientBySecret, wsByClient, bufferByClient,
                   sockets, sent, pendingInits, inits, generated, lastInit,
                   emitted>>
    /\ UNCHANGED notGSVars

(***************************************************************************)
(* GameServer: connections and messages.                                   *)
(***************************************************************************)
\* A transport connects: handleConnection registers its handlers.
Connect(w) ==
    /\ listening
    /\ sockets[w].readyState = "NONE"
    /\ \A v \in 1 .. (w - 1) : sockets[v].readyState # "NONE"
    /\ sockets' = [sockets EXCEPT ![w].readyState = "OPEN"]
    /\ UNCHANGED <<now, listening, connectedHook, loadIdx, objects, diskClients,
                   usedIds, heap, clients, clientBySecret, wsByClient,
                   bufferByClient, sent, pendingInits, inits, generated, lastInit, emitted>>
    /\ UNCHANGED notGSVars

\* The client objects some Map still holds.
LiveRefs(cl, bySecret, byWs, byBuf) ==
    {cl[i].v : i \in DOMAIN cl} \cup {bySecret[x] : x \in DOMAIN bySecret}
        \cup DOMAIN byWs \cup DOMAIN byBuf

NewRef == CHOOSE r \in 1 .. (Cardinality(DOMAIN heap) + 1) : r \notin DOMAIN heap

\* The "connected" listener of the module: a welcome unless the init was a
\* rejoin, then the snapshot of every object.
OnConnected(clientId, isNew, isRejoin) ==
    (IF isRejoin THEN <<>> ELSE <<WelcomeMessage(clientId, isNew)>>)
        \o [i \in DOMAIN objects |-> StreamJSON(objects[i].v)]

\* A handleInit that puts the secret into every init response.
InitQueueWithSecret(clientId, clientSecret, isNew, isRejoin) ==
    <<InitResponse(clientId, clientSecret, isRejoin)>>
        \o (IF connectedHook THEN OnConnected(clientId, isNew, isRejoin) ELSE <<>>)

\* What one handleInit queues for the client: the init response, then what
\* the "connected" listener (once registered) sends.
InitQueue(clientId, clientSecret, isNew, isRejoin) ==
    <<InitResponse(clientId, IF isNew THEN clientSecret ELSE NULL, isRejoin)>>
        \o (IF connectedHook THEN OnConnected(clientId, isNew, isRejoin) ELSE <<>>)

\* handleInit from line 137 on, and handleMessage's lastSeen update: the
\* client object ref (fields id, secret) is registered on transport w.
RegisterClient(w, msgSecret, ref, id, secret, isNew, isRejoin, prior) ==
    LET queue == InitQueue(id, secret, isNew, isRejoin)
        old == IF ref \in DOMAIN bufferByClient THEN bufferByClient[ref] ELSE <<>>
    IN  /\ heap' = FnSet(heap, ref, [id |-> id, secret |-> secret, lastSeen |-> now])
        /\ bufferByClient' = FnSet(bufferByClient, ref, old \o queue)
        /\ clients' = MapSet(clients, id, ref)
        /\ clientBySecret' = FnSet(clientBySecret, secret, ref)
        /\ wsByClient' = FnSet(wsByClient, ref, w)
        /\ sockets' = [sockets EXCEPT ![w].secret = secret]
        /\ lastInit' = [done |-> TRUE, ws |-> w, secret |-> msgSecret,
                        clientId |-> id, rejoin |-> isRejoin, isNew |-> isNew,
                        prior |-> prior, hooked |-> connectedHook,
                        queued |-> queue]

\* generateId twice (id, then secret), persistClient, and the registration
\* of the new client.
CreateClient(w, msgSecret) ==
    \E id \in IdPool \ usedIds :
        \E secret \in IdPool \ (usedIds \cup {id}) :
            /\ usedIds' = usedIds \cup {id, secret}
            /\ generated' = generated \cup {id, secret}
            /\ diskClients' = diskClients \cup {[id |-> id, secret |-> secret]}
            /\ RegisterClient(w, msgSecret, NewRef, id, secret, TRUE, FALSE, "none")

\* An init message that handleInit answers without waiting: it carries no
\* secret, or the secret of a client that is in clientBySecret.
HandleInit(w, msgSecret) ==
    /\ sockets[w].readyState = "OPEN"
    /\ inits < MaxInits
    /\ inits' = inits + 1
    /\ IF msgSecret = NULL
       THEN CreateClient(w, msgSecret)
       ELSE /\ msgSecret \in DOMAIN clientBySecret
            /\ LET ref == clientBySecret[msgSecret]
               IN  RegisterClient(w, msgSecret, ref, heap[ref].id, heap[ref].secret,
                                  FALSE, TRUE,
                                  sockets[wsByClient[ref]].readyState)
            /\ UNCHANGED <<usedIds, diskClients, generated>>
    /\ UNCHANGED <<now, listening, connectedHook, loadIdx, objects, sent,
                   pendingInits, emitted>>
    /\ UNCHANGED notGSVars

\* An init message with a secret that is not in clientBySecret: handleInit
\* waits for the directory read.
HandleInitLookup(w, msgSecret) ==
    /\ sockets[w].readyState = "OPEN"
    /\ inits < MaxInits
    /\ msgSecret # NULL
    /\ msgSecret \notin DOMAIN clientBySecret
    /\ [ws |-> w, secret |-> msgSecret] \notin pendingInits
    /\ inits' = inits + 1
    /\ pendingInits' = pendingInits \cup {[ws |-> w, secret |-> msgSecret]}
    /\ UNCHANGED <<now, listening, connectedHook, loadIdx, objects, diskClients,
                   usedIds, heap, clients, clientBySecret, wsByClient,
                   bufferByClient, sockets, sent, generated, lastInit,
                   emitted>>
    /\ UNCHANGED notGSVars

\* The directory read returns: the first file whose name ends with
\* "-<secret>.json" is parsed into a new client object; with no such file a
\* new client is created.
HandleInitResume(p) ==
    /\ p \in pendingInits
    /\ pendingInits' = pendingInits \ {p}
    /\ LET matching == {c \in diskClients : c.secret = p.secret} IN
        IF matching # {}
        THEN /\ \E c \in matching :
                    RegisterClient(p.ws, p.secret, NewRef, c.id, c.secret,
                                   FALSE, FALSE, "disk")
             /\ UNCHANGED <<usedIds, diskClients, generated>>
        ELSE CreateClient(p.ws, p.secret)
    /\ UNCHANGED <<now, listening, connectedHook, loadIdx, objects, sent, inits, emitted>>
    /\ UNCHANGED notGSVars

\* A message of another type: handleMessage resolves the client from the
\* transport's secret and stamps it; an unresolved message is dropped.
HandleMessage(w) ==
    /\ sockets[w].readyState = "OPEN"
    /\ IF sockets[w].secret \in DOMAIN clientBySecret
       THEN heap' = [heap EXCEPT ![clientBySecret[sockets[w].secret]].lastSeen = now]
       ELSE UNCHANGED heap
    /\ UNCHANGED <<now, listening, connectedHook, loadIdx, objects, diskClients,
                   usedIds, clients, clientBySecret, wsByClient, bufferByClient,
                   sockets, sent, pendingInits, inits, generated, lastInit,
                   emitted>>
    /\ UNCHANGED notGSVars

\* The transport's "close" event: handleDisconnect emits "clientDisconnect"
\* when the transport's secret still resolves to a client. Nothing listens
\* to that event and no Map is changed.
CloseEvent(w) ==
    /\ sockets[w].readyState \in {"OPEN", "CLOSING"}
    /\ sockets' = [sockets EXCEPT ![w].readyState = "CLOSED"]
    /\ emitted' = IF sockets[w].secret \in DOMAIN clientBySecret
                  THEN emitted \cup {heap[clientBySecret[sockets[w].secret]].id}
                  ELSE emitted
    /\ UNCHANGED <<now, listening, connectedHook, loadIdx, objects, diskClients,
                   usedIds, heap, clients, clientBySecret, wsByClient,
                   bufferByClient, sent, pendingInits, inits, generated, lastInit>>
    /\ UNCHANGED notGSVars

(***************************************************************************)
(* GameServer: the maintenance interval.                                   *)
(***************************************************************************)
\* A maintenance loop that measures inactivity against the tick interval.
TimedOutAfterTick(client, t) == t - client.lastSeen > TickInterval

TimedOut(client, t) == t - client.lastSeen > KeepAliveTimeout

\* The index in clients at which the loop returns: the first client that has
\* timed out, or 0 when the loop runs to its end.
FirstTimedOut(cl, hp, t) ==
    IF \E i \in DOMAIN cl : TimedOut(hp[cl[i].v], t)
    THEN CHOOSE i \in DOMAIN cl :
            /\ TimedOut(hp[cl[i].v], t)
            /\ \A j \in 1 .. (i - 1) : ~TimedOut(hp[cl[j].v], t)
    ELSE 0

\* The loop body for the clients i .. last, in order: a client whose transport
\* is open and whose buffer is not empty has its buffer replaced by [] and
\* sent as one frame.
RECURSIVE FlushFrom(_, _, _, _)
FlushFrom(i, last, buf, snt) ==
    IF i > last
    THEN [buf |-> buf, snt |-> snt, flushed |-> {}]
    ELSE LET ref == clients[i].v
             ws == wsByClient[ref]
             go == sockets[ws].readyState = "OPEN" /\ Len(buf[ref]) > 0
             rest == FlushFrom(i + 1, last,
                               IF go THEN [buf EXCEPT ![ref] = <<>>] ELSE buf,
                               IF go THEN [snt EXCEPT ![ws] = Append(@, buf[ref])]
                                     ELSE snt)
         IN  [rest EXCEPT !.flushed = IF go THEN @ \cup {clients[i].k} ELSE @]

\* handleInactiveClient's effect on the transport: ws.close().
CloseWs(socks, w) ==
    IF socks[w].readyState = "OPEN"
    THEN [socks EXCEPT ![w].readyState = "CLOSING"]
    ELSE socks

MaintenanceTick ==
    /\ listening
    /\ LET k == FirstTimedOut(clients, heap, now)
           last == IF k = 0 THEN Len(clients) ELSE k - 1
           done == FlushFrom(1, last, bufferByClient, sent)
       IN
        /\ sent' = done.snt
        /\ IF k = 0
           THEN /\ bufferByClient' = done.buf
                /\ UNCHANGED <<clients, clientBySecret, wsByClient, sockets, heap>>
           ELSE LET ref == clients[k].v
                    client == heap[ref]
                    cl2 == MapDelete(clients, client.id)
                    bs2 == FnDelete(clientBySecret, client.secret)
                    ws2 == FnDelete(wsByClient, ref)
                    bf2 == FnDelete(done.buf, ref)
                IN  /\ sockets' = CloseWs(sockets, wsByClient[ref])
                    /\ clients' = cl2
                    /\ clientBySecret' = bs2
                    /\ wsByClient' = ws2
                    /\ bufferByClient' = bf2
                    /\ heap' = [r \in LiveRefs(cl2, bs2, ws2, bf2) |-> heap[r]]
    /\ UNCHANGED <<now, listening, connectedHook, loadIdx, objects, diskClients,
                   usedIds, pendingInits, inits, generated, lastInit, emitted>>
    /\ UNCHANGED notGSVars

\* The clientSecret values an init message carries: none, a secret the server
\* has issued (in this run or an earlier one), or a made-up one.
MsgSecrets == {NULL, BogusSecret} \cup {c.secret : c \in diskClients}

InitGS == GSInit /\ StoreIdle /\ SMIdle /\ CMIdle /\ FrIdle /\ SvIdle /\ P1Idle
\* The triggers the module registers exitHandler for.
ShutdownTriggers == {"exit", "SIGINT", "SIGUSR1", "SIGUSR2", "uncaughtException"}
\* persistObject(rootObject, tmpDir): the root and, through contents, every
\* object loaded under it, in the order loaded.
PersistedTree(objs) == [i \in DOMAIN objs |-> objs[i].k]
\* A shutdown trigger. The handlers are registered by the top level after
\* "await loadObjects()": from then on a signal or an uncaught exception runs
\* exitHandler with exit, process.exit() emits "exit", and exitHandler with
\* cleanup persists the tree under rootObject and puts it in place of
\* data/objects. Before that no handler is registered: the process ends
\* without saving.
Shutdown(trigger) ==
    /\ ~exited
    /\ exited' = TRUE
    /\ saves' = IF connectedHook THEN Append(saves, PersistedTree(objects)) ELSE saves
    /\ UNCHANGED <<gsVars, storeVars, smVars, cmVars, frVars, svVars, p1Vars>>

NextGS ==
    \/ ~exited /\ StartServer
    \/ ~exited /\ LoadObject
    \/ ~exited /\ ClockAdvance
    \/ ~exited /\ \E w \in WsIds : Connect(w)
    \/ ~exited /\ \E w \in WsIds : \E msgSecret \in MsgSecrets : HandleInit(w, msgSecret)
    \/ ~exited /\ \E w \in WsIds : \E msgSecret \in MsgSecrets : HandleInitLookup(w, msgSecret)
    \/ ~exited /\ \E p \in pendingInits : HandleInitResume(p)
    \/ ~exited /\ \E w \in WsIds : HandleMessage(w)
    \/ ~exited /\ \E w \in WsIds : CloseEvent(w)
    \/ ~exited /\ MaintenanceTick
    \/ \E trigger \in ShutdownTriggers : Shutdown(trigger)
SpecGS == InitGS /\ [][NextGS]_vars

(***************************************************************************)
(* The object store of src/server.js: data/objects.txt, loadData, saveData. *)
(*                                                                         *)
(* A line of objects.txt is kept as the parts loadData's two regular       *)
(* expressions see: the marker glyphs of its indentation, and the text     *)
(* "<type>-<id> (<name>) {<key>: <value>, ...}". A JavaScript value is     *)
(* <<"num", text>> or <<"str", text>>, text being what String() gives.     *)
(* An object is the sequence of its own properties in insertion order.     *)
(***************************************************************************)
ObjectIds == {"r", "a"}
\* A name may hold any character but ")"; "|" stands for a marker glyph
\* (one of the two box-drawing characters of the indentation).
GlyphName == "north|gate"
Names == {"hall", GlyphName}
PropTexts ==
    { <<>>,
      <<[k |-> "hp", v |-> "1.0"], [k |-> "lit", v |-> "0"]>>,
      <<[k |-> "id", v |-> "zz"]>> }
ObjectLine(prefix, type, id, name, props) ==
    [shape |-> "object", prefix |-> prefix, type |-> type, id |-> id,
     name |-> name, props |-> props]
OtherLine == [shape |-> "other", prefix |-> 0, type |-> "", id |-> "",
              name |-> "", props |-> <<>>]
Lines ==
    {OtherLine} \cup
    {ObjectLine(n, "item", id, name, props) :
        n \in 0 .. (MaxLines - 1), id \in ObjectIds, name \in Names, props \in PropTexts}
Files == UNION {[1 .. n -> Lines] : n \in 0 .. MaxLines}

Str(text) == <<"str", text>>
Num(text) == <<"num", text>>
TextOf(value) == value[2]

\* parseFloat, as the text of the number it returns.
ParseFloat(text) ==
    CASE text \in {"1", "1.0"} -> "1"
      [] text = "0" -> "0"
      [] OTHER -> "NaN"
\* parseFloat(value) || value: NaN and 0 are falsy, the text is kept.
ParseValue(text) ==
    IF ParseFloat(text) \in {"NaN", "0"} THEN Str(text) ELSE Num(ParseFloat(text))

MarkersIn(name) == IF name = GlyphName THEN 1 ELSE 0
\* (line.match(/(│|├)/g) || []).length counts markers in the whole line.
IndentLevel(line) == line.prefix + MarkersIn(line.name)
\* /(\w+)-(\w+) \(([^)]*)\) \{([^}]+)\}/ : the braces must hold a character.
LineMatches(line) == line.shape = "object" /\ Len(line.props) > 0

\* Setting the entries one after another on an object (Object.fromEntries,
\* the spread in an object literal).
RECURSIVE AssignFrom(_, _, _)
AssignFrom(target, entries, i) ==
    IF i > Len(entries) THEN target
    ELSE AssignFrom(MapSet(target, entries[i].k, entries[i].v), entries, i + 1)
ParseProperties(props) ==
    AssignFrom(<<>>, [i \in DOMAIN props |->
                         [k |-> props[i].k, v |-> ParseValue(props[i].v)]], 1)
\* const obj = { id, type, name, ...properties }
ObjectLiteral(id, type, name, properties) ==
    AssignFrom(<<[k |-> "id", v |-> Str(id)], [k |-> "type", v |-> Str(type)],
                 [k |-> "name", v |-> Str(name)]>>, properties, 1)
ObjId(obj) == TextOf(MapGet(obj, "id"))

\* One pass of loadData's loop body over a line. crashed: the body threw
\* (id_contentIds.get(parent.id) is undefined when parent.id is not a key).
LoadStep(st, line) ==
    IF ~LineMatches(line) THEN st
    ELSE
      LET indentLevel == IndentLevel(line)
          id == line.id
          obj == ObjectLiteral(id, line.type, line.name, ParseProperties(line.props))
          hasParent == indentLevel > 0 /\ (indentLevel - 1) \in DOMAIN st.parentStack
          parentId == ObjId(st.parentStack[indentLevel - 1])
          parents == IF hasParent THEN FnSet(st.id_parentId, id, parentId)
                     ELSE st.id_parentId
          throws == hasParent /\ parentId \notin DOMAIN st.id_contentIds
          pushed == IF hasParent /\ ~throws
                    THEN [st.id_contentIds EXCEPT ![parentId] = Append(@, id)]
                    ELSE st.id_contentIds
      IN  IF throws
          THEN [st EXCEPT !.id_parentId = parents, !.crashed = TRUE]
          ELSE [parentStack |-> FnSet(st.parentStack, indentLevel, obj),
                id_object |-> FnSet(st.id_object, id, obj),
                id_parentId |-> parents,
                id_contentIds |-> FnSet(pushed, id, <<>>),
                id_dirty |-> MapSet(st.id_dirty, id, obj),
                root |-> IF indentLevel > 0 THEN st.root ELSE obj,
                crashed |-> FALSE]

\* saveData's indent: "│ " repeated, the last one replaced by "├ "; the
\* markers in it are as many as the level.
IndentMarkers(indentLevel) == indentLevel
\* The properties saveData writes: every own property but id, type, name.
WrittenProperties(obj) ==
    LET rest == SelectSeq(obj, LAMBDA e : e.k \notin {"id", "type", "name"})
    IN  [i \in DOMAIN rest |-> [k |-> rest[i].k, v |-> TextOf(rest[i].v)]]
RECURSIVE WriteObject(_, _, _, _)
RECURSIVE WriteChildren(_, _, _, _, _)
\* writeObject: the lines it writes for id and, below it, for its children.
WriteObject(id, indentLevel, objs, contents) ==
    IF id \notin DOMAIN objs THEN <<>>
    ELSE LET obj == objs[id]
             children == IF id \in DOMAIN contents THEN contents[id] ELSE <<>>
         IN  <<ObjectLine(IndentMarkers(indentLevel), TextOf(MapGet(obj, "type")),
                          ObjId(obj), TextOf(MapGet(obj, "name")),
                          WrittenProperties(obj))>>
             \o WriteChildren(children, 1, indentLevel + 1, objs, contents)
WriteChildren(children, i, indentLevel, objs, contents) ==
    IF i > Len(children) THEN <<>>
    ELSE WriteObject(children[i], indentLevel, objs, contents)
         \o WriteChildren(children, i + 1, indentLevel, objs, contents)
\* The file saveData writes.
SaveLines(st) ==
    IF st.root = NoObj THEN <<>>
    ELSE WriteObject(ObjId(st.root), 0, st.id_object, st.id_contentIds)

\* A process starts: empty Maps, initialise() about to call loadData.
FreshStore ==
    /\ storePhase' = "loading"
    /\ pos' = 0
    /\ parentStack' = EmptyFn
    /\ id_object' = EmptyFn
    /\ id_parentId' = EmptyFn
    /\ id_contentIds' = EmptyFn
    /\ id_dirty' = <<>>
    /\ root' = NoObj

StoreInit ==
    /\ fileExists \in BOOLEAN
    /\ objectsTxt \in (IF fileExists THEN Files ELSE {<<>>})
    /\ storePhase = "loading"
    /\ pos = 0
    /\ parentStack = EmptyFn
    /\ id_object = EmptyFn
    /\ id_parentId = EmptyFn
    /\ id_contentIds = EmptyFn
    /\ id_dirty = <<>>
    /\ root = NoObj
    /\ runs = 1
    /\ savedStore = NoStore
    /\ stream = "none"
    /\ savePending = <<>>
    /\ fileBefore = NoFile

\* createReadStream on a missing file: the for-await throws, initialise()
\* rejects and nothing catches it.
LoadFail ==
    /\ storePhase = "loading"
    /\ ~fileExists
    /\ storePhase' = "crashed"
    /\ UNCHANGED <<fileExists, objectsTxt, pos, parentStack, id_object, id_parentId,
                   id_contentIds, id_dirty, root, runs, savedStore>>
    /\ UNCHANGED saveVars
    /\ UNCHANGED notStoreVars

\* loadData reads the next line.
LoadLine ==
    /\ storePhase = "loading"
    /\ fileExists
    /\ pos < Len(objectsTxt)
    /\ LET st == LoadStep([parentStack |-> parentStack, id_object |-> id_object,
                           id_parentId |-> id_parentId,
                           id_contentIds |-> id_contentIds, id_dirty |-> id_dirty,
                           root |-> root, crashed |-> FALSE], objectsTxt[pos + 1])
       IN  /\ parentStack' = st.parentStack
           /\ id_object' = st.id_object
           /\ id_parentId' = st.id_parentId
           /\ id_contentIds' = st.id_contentIds
           /\ id_dirty' = st.id_dirty
           /\ root' = st.root
           /\ storePhase' = IF st.crashed THEN "crashed" ELSE "loading"
    /\ pos' = pos + 1
    /\ UNCHANGED <<fileExists, objectsTxt, runs, savedStore>>
    /\ UNCHANGED saveVars
    /\ UNCHANGED notStoreVars

\* The end of the file: loadData returns.
LoadEnd ==
    /\ storePhase = "loading"
    /\ fileExists
    /\ pos = Len(objectsTxt)
    /\ storePhase' = "loaded"
    /\ UNCHANGED <<fileExists, objectsTxt, pos, parentStack, id_object, id_parentId,
                   id_contentIds, id_dirty, root, runs, savedStore>>
    /\ UNCHANGED saveVars
    /\ UNCHANGED notStoreVars

\* initialise() goes on to saveData: the lines are handed to a write stream
\* created on objects.txt and the stream is ended; saveData returns without
\* waiting for it, and initialise() starts to listen.
SaveData ==
    /\ storePhase = "loaded"
    /\ savePending' = SaveLines(StoreOf(id_object, id_parentId, id_contentIds, root))
    /\ stream' = "pending"
    /\ fileBefore' = [exists |-> fileExists, lines |-> objectsTxt]
    /\ storePhase' = "serving"
    /\ UNCHANGED <<fileExists, objectsTxt, pos, parentStack, id_object, id_parentId,
                   id_contentIds, id_dirty, root, runs, savedStore>>
    /\ UNCHANGED notStoreVars

\* The stream opens objects.txt for writing: the file is truncated.
StreamOpen ==
    /\ stream = "pending"
    /\ fileExists' = TRUE
    /\ objectsTxt' = <<>>
    /\ savedStore' = NoStore
    /\ stream' = "open"
    /\ UNCHANGED <<storePhase, pos, parentStack, id_object, id_parentId,
                   id_contentIds, id_dirty, root, runs, savePending, fileBefore>>
    /\ UNCHANGED notStoreVars

\* The stream writes the next line it holds.
StreamWrite ==
    /\ stream = "open"
    /\ savePending # <<>>
    /\ objectsTxt' = Append(objectsTxt, Head(savePending))
    /\ savePending' = Tail(savePending)
    /\ UNCHANGED <<fileExists, storePhase, pos, parentStack, id_object, id_parentId,
                   id_contentIds, id_dirty, root, runs, savedStore, stream, fileBefore>>
    /\ UNCHANGED notStoreVars

\* Everything is written: the stream finishes.
StreamFinish ==
    /\ stream = "open"
    /\ savePending = <<>>
    /\ stream' = "done"
    /\ savedStore' = StoreOf(id_object, id_parentId, id_contentIds, root)
    /\ fileBefore' = NoFile
    /\ UNCHANGED <<fileExists, objectsTxt, storePhase, pos, parentStack, id_object,
                   id_parentId, id_contentIds, id_dirty, root, runs, savePending>>
    /\ UNCHANGED notStoreVars

\* The process is killed while the stream has not finished.
Crash ==
    /\ stream \in {"pending", "open"}
    /\ storePhase' = "crashed"
    /\ stream' = "lost"
    /\ UNCHANGED <<fileExists, objectsTxt, pos, parentStack, id_object, id_parentId,
                   id_contentIds, id_dirty, root, runs, savedStore, savePending,
                   fileBefore>>
    /\ UNCHANGED notStoreVars

\* The process ends and is started again on the same data directory.
Restart ==
    /\ \/ storePhase = "crashed"
       \/ storePhase = "serving" /\ stream = "done"
    /\ runs < MaxRuns
    /\ runs' = runs + 1
    /\ FreshStore
    /\ stream' = "none"
    /\ savePending' = <<>>
    /\ fileBefore' = NoFile
    /\ UNCHANGED <<fileExists, objectsTxt, savedStore>>
    /\ UNCHANGED notStoreVars

InitStore == GSInit /\ diskClients = {} /\ StoreInit /\ SMIdle /\ CMIdle /\ FrIdle /\ SvIdle /\ P1Idle
NextStore ==
    \/ LoadFail
    \/ LoadLine
    \/ LoadEnd
    \/ SaveData
    \/ StreamOpen
    \/ StreamWrite
    \/ StreamFinish
    \/ Crash
    \/ Restart
SpecStore == InitStore /\ [][NextStore]_vars

(***************************************************************************)
(* Claims about the object store, checked under SpecStore.                 *)
(***************************************************************************)
CurrentStore == StoreOf(id_object, id_parentId, id_contentIds, root)
\* The store holds one tree: a root that is stored under its own id and
\* has no parent, and every object written exactly once by saveData, under
\* the parent that id_parentId names.
RECURSIVE Occurrences(_, _, _)
Occurrences(lines, id, i) ==
    IF i > Len(lines) THEN 0
    ELSE (IF lines[i].id = id THEN 1 ELSE 0) + Occurrences(lines, id, i + 1)
IsOneTree(st) ==
    /\ st.root # NoObj
    /\ ObjId(st.root) \in DOMAIN st.id_object
    /\ st.id_object[ObjId(st.root)] = st.root
    /\ ObjId(st.root) \notin DOMAIN st.id_parentId
    /\ \A id \in DOMAIN st.id_object :
        /\ ObjId(st.id_object[id]) = id
        /\ Occurrences(SaveLines(st), id, 1) = 1
        /\ id # ObjId(st.root) =>
              /\ id \in DOMAIN st.id_parentId
              /\ st.id_parentId[id] \in DOMAIN st.id_object
              /\ \E j \in DOMAIN st.id_contentIds[st.id_parentId[id]] :
                     st.id_contentIds[st.id_parentId[id]][j] = id

\* C6: a world that saveData wrote out and the next process start loaded
\* into its empty store is the same world: the same objects, the same
\* parent of every object, the same children in the same order.
C6_SaveThenLoadIsTheSameWorld ==
    (runs > 1 /\ storePhase = "loaded" /\ IsOneTree(savedStore)) =>
        CurrentStore = savedStore

ReadsLine == storePhase = "loading" /\ fileExists /\ pos' = pos + 1
\* C7: when loadData reads a line that does not match the object line
\* format, the load fails: initialise() does not go on, no object is kept.
C7_BadLineFailsTheLoad ==
    [][(ReadsLine /\ ~LineMatches(objectsTxt[pos + 1])) =>
            (storePhase' = "crashed" /\ id_object' = EmptyFn)]_vars

RECURSIVE ReachesRoot(_, _)
ReachesRoot(id, steps) ==
    IF id \notin DOMAIN id_object THEN FALSE
    ELSE IF id_object[id] = root THEN TRUE
    ELSE IF steps = 0 \/ id \notin DOMAIN id_parentId THEN FALSE
    ELSE ReachesRoot(id_parentId[id], steps - 1)
\* C8: after loadData, every object but state.root has a parent in
\* id_parentId that is in id_object, and its parent links lead to the root
\* without passing an object twice.
C8_LoadedObjectsHangUnderTheRoot ==
    storePhase = "loaded" =>
        \A id \in DOMAIN id_object :
            id_object[id] # root =>
                /\ id \in DOMAIN id_parentId
                /\ id_parentId[id] \in DOMAIN id_object
                /\ ReachesRoot(id, Cardinality(DOMAIN id_object))

\* C9: a line that creates an object under an id the store already holds
\* is rejected: the object stored under that id, its parent link and its
\* list of children are what they were.
C9_ExistingIdIsRejected ==
    [][(ReadsLine /\ LineMatches(objectsTxt[pos + 1])
            /\ objectsTxt[pos + 1].id \in DOMAIN id_object) =>
          LET id == objectsTxt[pos + 1].id
          IN  /\ id_object'[id] = id_object[id]
              /\ id_contentIds'[id] = id_contentIds[id]
              /\ (id \in DOMAIN id_parentId') = (id \in DOMAIN id_parentId)
              /\ id \in DOMAIN id_parentId => id_parentId'[id] = id_parentId[id]]_vars

\* C11: when the process is killed during a save, objects.txt holds either
\* all of what it held before the save or all of what the save writes.
C11_CrashLeavesOldOrNewFile ==
    (storePhase = "crashed" /\ stream = "lost") =>
        /\ fileExists
        /\ \/ fileBefore.exists /\ objectsTxt = fileBefore.lines
           \/ objectsTxt = SaveLines(CurrentStore)

\* C12: objects.txt is overwritten only after a load that reconstructed
\* every object the file holds: each object line of the file was matched and
\* its id is in id_object.
C12_SaveOnlyAfterCompleteLoad ==
    [][(stream = "pending" /\ stream' = "open" /\ fileExists) =>
          \A i \in DOMAIN objectsTxt :
              objectsTxt[i].shape = "object" =>
                  /\ LineMatches(objectsTxt[i])
                  /\ objectsTxt[i].id \in DOMAIN id_object]_vars

(***************************************************************************)
(* Claims about the GameServer, checked under SpecGS.                      *)
(***************************************************************************)
IsWelcome(m) == m.type = "message"
IsSnapshot(m) == m.type = "object"
QueuedWelcome(q) == \E i \in DOMAIN q : IsWelcome(q[i])
QueuedSnapshots(q) == {q[i].o : i \in {j \in DOMAIN q : IsSnapshot(q[j])}}
WorldSnapshots == {StreamJSON(DiskObjects[i]).o : i \in DOMAIN DiskObjects}

\* C1: an init that carries a secret the server has issued is answered with
\* the clientId issued together with that secret, and no client record with
\* another id exists for that secret.
C1_IssuedSecretKeepsItsId ==
    (lastInit.done /\ lastInit.secret # NULL) =>
        \A c \in diskClients :
            c.secret = lastInit.secret => c.id = lastInit.clientId

\* C2: once the world is loaded, an init with the secret of a client whose
\* transport has closed (and that was not evicted) is not marked as a rejoin,
\* and the welcome message and the whole world replay are queued for it.
C2_ReconnectAfterCloseIsFirstJoin ==
    (lastInit.done /\ lastInit.hooked /\ lastInit.prior = "CLOSED") =>
        /\ ~lastInit.rejoin
        /\ QueuedWelcome(lastInit.queued)
        /\ QueuedSnapshots(lastInit.queued) = WorldSnapshots

\* C3: once the world is loaded, an init with the secret of a client that is
\* currently connected is marked as a rejoin, and neither the welcome message
\* nor any object snapshot is queued for it.
C3_RejoinQueuesNothing ==
    (lastInit.done /\ lastInit.hooked /\ lastInit.prior = "OPEN") =>
        /\ lastInit.rejoin
        /\ ~QueuedWelcome(lastInit.queued)
        /\ QueuedSnapshots(lastInit.queued) = {}

\* C4: a maintenance tick evicts every client that has timed out at that
\* tick: its transport is closed and its entries are gone from clients,
\* clientBySecret, wsByClient and bufferByClient.
C4_TickEvictsEveryTimedOutClient ==
    [][MaintenanceTick =>
        \A i \in DOMAIN clients :
            TimedOut(heap[clients[i].v], now) =>
                /\ ~MapHas(clients', clients[i].k)
                /\ heap[clients[i].v].secret \notin DOMAIN clientBySecret'
                /\ clients[i].v \notin DOMAIN wsByClient'
                /\ clients[i].v \notin DOMAIN bufferByClient'
                /\ sockets'[wsByClient[clients[i].v]].readyState # "OPEN"]_vars

\* The transports of the sessions that are connected: registered clients
\* whose transport is open.
ConnectedRefs == {r \in DOMAIN wsByClient : sockets[wsByClient[r]].readyState = "OPEN"}
DisconnectNotice(m, id) == m.type \in {"disconnected", "clientDisconnect"} /\ m.clientId = id
Delivered(r, id) ==
    \/ \E i \in DOMAIN bufferByClient[r] : DisconnectNotice(bufferByClient[r][i], id)
    \/ \E f \in DOMAIN sent[wsByClient[r]] :
          \E i \in DOMAIN sent[wsByClient[r]][f] :
              DisconnectNotice(sent[wsByClient[r]][f][i], id)

\* C5: once the transport closed by an idle eviction has reported its close,
\* a disconnect notification naming the evicted client has been emitted and
\* has reached every other connected session.
C5_EvictionIsNotified ==
    [][\A w \in WsIds :
        (sockets[w].readyState = "CLOSING" /\ sockets'[w].readyState = "CLOSED") =>
            \E c \in diskClients :
                /\ c.secret = sockets[w].secret
                /\ c.id \in emitted'
                /\ \A r \in ConnectedRefs' : Delivered(r, c.id)']_vars

\* C10: generateId never returns the id of a client or object loaded from
\* disk, and no two clients, and no client and object, share an id.
C10_GeneratedIdsAreUnique ==
    /\ \A i \in DOMAIN objects : objects[i].k \notin generated
    /\ \A c1, c2 \in diskClients : c1.id = c2.id => c1 = c2
    /\ \A c \in diskClients : \A i \in DOMAIN objects : c.id # objects[i].k

IsPrefix(a, b) == Len(a) <= Len(b) /\ SubSeq(b, 1, Len(a)) = a
\* Client record r is the one the maintenance loop reaches: clients holds it.
Registered(r) == \E i \in DOMAIN clients : clients[i].v = r
\* What a step does to a buffer that stays: it appends to it, or it sends all
\* of it as one new frame on the client's transport and empties it.
BufferStep(r) ==
    \/ IsPrefix(bufferByClient[r], bufferByClient'[r])
    \/ /\ bufferByClient'[r] = <<>>
       /\ LET ws == wsByClient[r]
          IN  \E i \in (Len(sent[ws]) + 1) .. Len(sent'[ws]) :
                  sent'[ws][i] = bufferByClient[r]
\* C13: a message queued with send is transmitted on the client's transport
\* once and in the order queued, and a queued message is never left in a
\* buffer the maintenance tick cannot reach: every buffer that holds a message
\* belongs to a record that clients holds.
C13_QueuedIsSentOnceInOrder ==
    /\ [][\A r \in (DOMAIN bufferByClient) \cap (DOMAIN bufferByClient') :
              BufferStep(r)]_vars
    /\ [](\A r \in DOMAIN bufferByClient :
              bufferByClient[r] # <<>> => Registered(r))

\* C14: a maintenance tick flushes the buffer of every client that has not
\* timed out, has an open transport and a non-empty buffer, whatever the
\* other clients of the table are: the buffer is sent as a frame and emptied.
C14_TickFlushesEveryReadyClient ==
    [][MaintenanceTick =>
          \A i \in DOMAIN clients :
              LET r == clients[i].v
                  ws == wsByClient[r]
              IN  (/\ ~TimedOut(heap[r], now)
                   /\ sockets[ws].readyState = "OPEN"
                   /\ bufferByClient[r] # <<>>) =>
                      /\ r \in DOMAIN bufferByClient'
                      /\ bufferByClient'[r] = <<>>
                      /\ \E j \in (Len(sent[ws]) + 1) .. Len(sent'[ws]) :
                             sent'[ws][j] = bufferByClient[r]]_vars

(***************************************************************************)
(* The socket manager of src/socketManager.js (createSocketManager):       *)
(* clients keyed by the public clientId, batched outbound messages, the    *)
(* heartbeat that evicts and flushes.                                      *)
(***************************************************************************)
SMKeepAliveTimeout == 20000
\* The clock advances in steps shorter than the timeout; two exceed it.
SMClockStep == (SMKeepAliveTimeout \div 2) + 1
\* What generateRandomId may return.
SMIdPool == {"i1", "i2"}
\* The clientId an init message carries: none, or any text.
SMInitIds == {NULL} \cup SMIdPool
\* The inbound messages: text that is not JSON (or has no type), an init, and
\* the types "message", "broadcast" and one that has no handler.
SMInbound ==
    {[type |-> "invalid", clientId |-> NULL]}
        \cup {[type |-> "init", clientId |-> id] : id \in SMInitIds}
        \cup {[type |-> t, clientId |-> NULL] : t \in {"message", "broadcast", "dance"}}
SMHandlerTypes == {"init", "message", "broadcast"}

SMReply(type, clientId, content) ==
    [type |-> type, clientId |-> clientId, content |-> content]
SMClientRecord(ws, lastSeen, batchedMessages) ==
    [ws |-> ws, lastSeen |-> lastSeen, batchedMessages |-> batchedMessages]

\* send(ws, message): the message is batched for the client wsToClientId
\* names for ws; without such a client it is dropped.
SMSend(cl, w2c, w, message) ==
    IF w \in DOMAIN w2c /\ MapHas(cl, w2c[w])
    THEN MapSet(cl, w2c[w],
                [MapGet(cl, w2c[w]) EXCEPT !.batchedMessages = Append(@, message)])
    ELSE cl
\* broadcast(message): send on the transport of every client whose transport
\* is open, in the order of clients (entries i and after).
RECURSIVE SMBroadcast(_, _, _, _, _)
SMBroadcast(cl, w2c, socks, message, i) ==
    IF i > Len(cl) THEN cl
    ELSE SMBroadcast(IF socks[cl[i].v.ws] = "OPEN"
                     THEN SMSend(cl, w2c, cl[i].v.ws, message) ELSE cl,
                     w2c, socks, message, i + 1)

\* handleInit: a clientId that is a key of clients re-binds that client to
\* this transport with a new record; otherwise a client is created under a
\* generated id. The id is sent back.
SMHandleInit(cl, w2c, w, clientId, newId, t) ==
    LET id == IF clientId # NULL /\ MapHas(cl, clientId) THEN clientId ELSE newId
        cl2 == MapSet(cl, id, SMClientRecord(w, t, <<>>))
        w2c2 == FnSet(w2c, w, id)
    IN  [clients |-> SMSend(cl2, w2c2, w, SMReply("init", id, <<>>)), w2c |-> w2c2]

\* The dispatch of ws.on("message") for one message.
SMDispatch(cl, w2c, socks, w, m, newId, t) ==
    IF m.type = "invalid"
    THEN [clients |-> SMSend(cl, w2c, w, SMReply("error", NULL, <<"Invalid message format">>)),
          w2c |-> w2c]
    ELSE
      LET seen == IF w \in DOMAIN w2c /\ MapHas(cl, w2c[w])
                  THEN MapSet(cl, w2c[w], [MapGet(cl, w2c[w]) EXCEPT !.lastSeen = t])
                  ELSE cl
      IN  CASE m.type = "init" -> SMHandleInit(seen, w2c, w, m.clientId, newId, t)
            [] m.type = "message" ->
                 [clients |-> SMSend(seen, w2c, w,
                                     SMReply("message", NULL, <<"Message received!">>)),
                  w2c |-> w2c]
            [] m.type = "broadcast" ->
                 [clients |-> SMBroadcast(seen, w2c, socks,
                                          SMReply("broadcast", NULL, <<"content">>), 1),
                  w2c |-> w2c]
            [] OTHER ->
                 [clients |-> SMSend(seen, w2c, w,
                                     SMReply("error", NULL, <<"Unsupported message type", m.type>>)),
                  w2c |-> w2c]

SMConnect(w) ==
    /\ smSockets[w] = "NONE"
    /\ \A v \in 1 .. (w - 1) : smSockets[v] # "NONE"
    /\ smSockets' = [smSockets EXCEPT ![w] = "OPEN"]
    /\ UNCHANGED <<smNow, smClients, wsToClientId, smSent, smReceived>>
    /\ UNCHANGED notSMVars

\* The transport's "close" event: the handler keeps both Maps as they are.
SMClose(w) ==
    /\ smSockets[w] \in {"OPEN", "CLOSING"}
    /\ smSockets' = [smSockets EXCEPT ![w] = "CLOSED"]
    /\ UNCHANGED <<smNow, smClients, wsToClientId, smSent, smReceived>>
    /\ UNCHANGED notSMVars

SMClockAdvance ==
    /\ smNow < MaxClockSteps * SMClockStep
    /\ smNow' = smNow + SMClockStep
    /\ UNCHANGED <<smSockets, smClients, wsToClientId, smSent, smReceived>>
    /\ UNCHANGED notSMVars

\* One message arrives on an open transport.
SMReceive(w, m) ==
    /\ smSockets[w] = "OPEN"
    /\ smReceived < MaxMessages
    /\ smReceived' = smReceived + 1
    /\ \E newId \in SMIdPool :
          LET out == SMDispatch(smClients, wsToClientId, smSockets, w, m, newId, smNow)
          IN  /\ smClients' = out.clients
              /\ wsToClientId' = out.w2c
    /\ UNCHANGED <<smNow, smSockets, smSent>>
    /\ UNCHANGED notSMVars

SMTimedOut(client, t) == t - client.lastSeen > SMKeepAliveTimeout
\* checkInactiveClients: every timed-out client has its transport closed and
\* is deleted from clients, its transport from wsToClientId.
SMClosedByEviction(cl, t) == {cl[i].v.ws : i \in {j \in DOMAIN cl : SMTimedOut(cl[j].v, t)}}
SMCheckInactive(cl, w2c, socks, t) ==
    [clients |-> SelectSeq(cl, LAMBDA e : ~SMTimedOut(e.v, t)),
     w2c |-> [w \in (DOMAIN w2c) \ SMClosedByEviction(cl, t) |-> w2c[w]],
     socks |-> [w \in DOMAIN socks |->
                  IF w \in SMClosedByEviction(cl, t) /\ socks[w] = "OPEN"
                  THEN "CLOSING" ELSE socks[w]]]
\* A flush that leaves out the readyState test of flushBatchedMessages.
SMFlushSendsUnchecked(socks, w) == socks[w] \in {"OPEN", "CLOSING", "CLOSED"}
\* flushBatchedMessages sends only on a transport whose readyState is OPEN.
SMFlushCanSend(socks, w) == socks[w] = "OPEN"
\* flushBatchedMessages over the entries i and after: a non-empty batch is
\* sent as one frame when the transport is open, and is cleared either way.
RECURSIVE SMFlush(_, _, _, _)
SMFlush(cl, socks, snt, i) ==
    IF i > Len(cl) THEN [clients |-> cl, sent |-> snt]
    ELSE LET c == cl[i].v
             go == Len(c.batchedMessages) > 0
         IN  SMFlush(IF go THEN [cl EXCEPT ![i].v.batchedMessages = <<>>] ELSE cl,
                     socks,
                     IF go /\ SMFlushCanSend(socks, c.ws)
                     THEN [snt EXCEPT ![c.ws] = Append(@, c.batchedMessages)]
                     ELSE snt,
                     i + 1)

\* The heartbeat interval: checkInactiveClients, then flushBatchedMessages.
SMHeartbeat ==
    /\ LET checked == SMCheckInactive(smClients, wsToClientId, smSockets, smNow)
           flushed == SMFlush(checked.clients, checked.socks, smSent, 1)
       IN  /\ smSockets' = checked.socks
           /\ wsToClientId' = checked.w2c
           /\ smClients' = flushed.clients
           /\ smSent' = flushed.sent
    /\ UNCHANGED <<smNow, smReceived>>
    /\ UNCHANGED notSMVars

InitSM == GSInit /\ diskClients = {} /\ StoreIdle /\ SMIdle /\ CMIdle /\ FrIdle /\ SvIdle /\ P1Idle
NextSM ==
    \/ \E w \in WsIds : SMConnect(w)
    \/ \E w \in WsIds : SMClose(w)
    \/ SMClockAdvance
    \/ \E w \in WsIds : \E m \in SMInbound : SMReceive(w, m)
    \/ SMHeartbeat
SpecSM == InitSM /\ [][NextSM]_vars

\* C15: when a heartbeat's flush leaves a client in clients, the client's
\* batch is either kept as it was, or it was sent as a frame on the client's
\* transport in that flush; a batch is never emptied without being sent.
C15_BatchRemovedOnlyWhenSent ==
    [][SMHeartbeat =>
          \A i \in DOMAIN smClients' :
              LET id == smClients'[i].k
                  before == MapGet(smClients, id)
                  after == smClients'[i].v
              IN  \/ after.batchedMessages = before.batchedMessages
                  \/ \E j \in (Len(smSent[before.ws]) + 1) .. Len(smSent'[before.ws]) :
                         smSent'[before.ws][j] = before.batchedMessages]_vars

\* C16: within one heartbeat no frame is sent on a transport that the idle
\* eviction of that same heartbeat has closed.
C16_NoSendOnTransportJustEvicted ==
    [][SMHeartbeat =>
          \A w \in SMClosedByEviction(smClients, smNow) :
              smSent'[w] = smSent[w]]_vars
\* A heartbeat has evicted a client on transport w while another client bound
\* to w held a batch: w is closing, the other client is still in clients, its
\* batch (every client receives an init reply) is gone and nothing was ever
\* sent on w.
C16_EvictedTransportHadABatch ==
    \E w \in WsIds :
        /\ smSockets[w] = "CLOSING"
        /\ smSent[w] = <<>>
        /\ \E i \in DOMAIN smClients :
               /\ smClients[i].v.ws = w
               /\ smClients[i].v.batchedMessages = <<>>

\* The secrets and ids that belong to a client already: in memory or in
\* data/client.
KnownSecrets == (DOMAIN clientBySecret) \cup {c.secret : c \in diskClients}
KnownClientIds == {clients[i].k : i \in DOMAIN clients} \cup {c.id : c \in diskClients}
\* C17: an init that leads handleInit to create a client (no secret, or a
\* secret that matches no client in memory or on disk) adds exactly one
\* client, whose id and secret belong to no client yet and differ from each
\* other, registers it on the sending transport, and queues the init response
\* with that clientId and clientSecret first, ahead of welcome and replay.
C17_UnrecognizedInitCreatesFreshClient ==
    [][generated' # generated =>
          LET id == lastInit'.clientId
              ref == MapGet(clients', id)
              secret == heap'[ref].secret
          IN  /\ lastInit'.isNew
              /\ id \notin KnownClientIds
              /\ secret \notin KnownSecrets
              /\ id # secret
              /\ Len(clients') = Len(clients) + 1
              /\ clientBySecret'[secret] = ref
              /\ wsByClient'[ref] = lastInit'.ws
              /\ sockets'[lastInit'.ws].secret = secret
              /\ bufferByClient'[ref] = lastInit'.queued
              /\ Head(lastInit'.queued) = InitResponse(id, secret, FALSE)
              /\ \A j \in 2 .. Len(lastInit'.queued) :
                     lastInit'.queued[j].type \in {"message", "object"}]_vars

\* C18: an init that presents the public id of an existing client, on a
\* connection that is not attached to that client, leaves the connection
\* unattached to it and leaves the client's record (its transport, its
\* batched messages) as it was.
C18_PublicIdDoesNotAttach ==
    [][\A w \in WsIds : \A id \in SMIdPool :
          (/\ SMReceive(w, [type |-> "init", clientId |-> id])
           /\ MapHas(smClients, id)
           /\ ~(w \in DOMAIN wsToClientId /\ wsToClientId[w] = id)) =>
              /\ ~(w \in DOMAIN wsToClientId' /\ wsToClientId'[w] = id)
              /\ MapGet(smClients', id) = MapGet(smClients, id)]_vars

(***************************************************************************)
(* The client manager of src/unnamed/part_000 (createClientManager):       *)
(* clients resolved from the transport or from a clientSecret, created for *)
(* any message that resolves to none, and the handlers it dispatches to.   *)
(***************************************************************************)
\* The messages the client manager receives in a run.
MaxCMMessages == 2
CMKeepAliveTimeout == 30000
\* The clock advances past the timeout in one step.
CMClockStep == CMKeepAliveTimeout + 1
\* The clock steps of a run of the client manager.
MaxCMClockSteps == 1
\* What generateRandomId may return for a clientId and for a clientSecret.
CMIdPool == {"i1", "i2"}
CMSecretPool == {"s1", "s2"}
\* The file an earlier run may have left in data/client.
CMPersisted == [clientId |-> "i1", clientSecret |-> "s1"]
CMDisks == {EmptyFn, [x \in {"s1"} |-> CMPersisted]}
\* The parsed inbound messages: their type and the clientSecret they carry.
CMInbound ==
    {[type |-> t, clientSecret |-> x] : t \in {"init", "message"}, x \in {NULL, "s1"}}
        \cup {[type |-> t, clientSecret |-> NULL] :
                 t \in {"broadcast", "updateAccountName", "dance"}}
\* The default handlers and the messageHandlers main.js passes.
CMHandlerTypes == {"init", "message", "broadcast", "alive", "updateAccountName"}
\* What generateRandomId may return for an accountId.
CMAccountPool == {"g1", "g2"}

CMMsg(type, clientId, clientSecret, content) ==
    [type |-> type, clientId |-> clientId, clientSecret |-> clientSecret,
     content |-> content]
CMClient(ws, lastSeen, clientId, clientSecret) ==
    [ws |-> ws, lastSeen |-> lastSeen, clientId |-> clientId,
     clientSecret |-> clientSecret, accountId |-> NULL]

\* send(client, message): on the client's transport when it is open.
CMSend(cl, socks, snt, id, message) ==
    LET w == MapGet(cl, id).ws
    IN  IF socks[w] = "OPEN" THEN [snt EXCEPT ![w] = Append(@, message)] ELSE snt
\* broadcast(message): to every client whose transport is open (entries i
\* and after).
RECURSIVE CMBroadcast(_, _, _, _, _)
CMBroadcast(cl, socks, snt, message, i) ==
    IF i > Len(cl) THEN snt
    ELSE CMBroadcast(cl, socks, CMSend(cl, socks, snt, cl[i].k, message), message, i + 1)
\* onConnect: "connected" is broadcast, then the client is welcomed.
CMOnConnect(cl, socks, snt, id) ==
    CMSend(cl, socks,
           CMBroadcast(cl, socks, snt, CMMsg("connected", id, NULL, <<>>), 1),
           id, CMMsg("message", NULL, NULL, <<"Welcome to the server!">>))

\* resolveClient(ws, message): the Maps, the disk and the frames sent when it
\* returns, the client it returns, and whether it called onConnect.
CMResolveClient(w, m, newId, newSecret) ==
    LET same == [clients |-> cmClients, w2c |-> cmWsToClientId,
                 s2c |-> secretToClientId, disk |-> cmDisk, id |-> NULL,
                 connected |-> FALSE]
        secret == m.clientSecret
        register(c, disk) ==
            [clients |-> MapSet(cmClients, c.clientId, c),
             w2c |-> FnSet(cmWsToClientId, w, c.clientId),
             s2c |-> FnSet(secretToClientId, c.clientSecret, c.clientId),
             disk |-> disk, id |-> c.clientId, connected |-> TRUE]
    IN  IF w \in DOMAIN cmWsToClientId /\ MapHas(cmClients, cmWsToClientId[w])
        THEN [same EXCEPT !.id = cmWsToClientId[w]]
        ELSE IF /\ secret # NULL
                /\ secret \in DOMAIN secretToClientId
                /\ MapHas(cmClients, secretToClientId[secret])
        THEN LET id == secretToClientId[secret]
             IN  [same EXCEPT !.id = id,
                              !.clients = MapSet(cmClients, id,
                                  [MapGet(cmClients, id) EXCEPT !.ws = w, !.lastSeen = cmNow]),
                              !.w2c = FnSet(cmWsToClientId, w, id)]
        ELSE IF secret # NULL /\ secret \in DOMAIN cmDisk
        THEN register(CMClient(w, cmNow, cmDisk[secret].clientId,
                               cmDisk[secret].clientSecret), cmDisk)
        ELSE register(CMClient(w, cmNow, newId, newSecret),
                      FnSet(cmDisk, newSecret,
                            [clientId |-> newId, clientSecret |-> newSecret]))

\* resolveAccount(client): the account the client's accountId names, or a new
\* guest account whose id is assigned to the client object.
CMResolveAccount(cl, accts, id, newAccount) ==
    LET client == MapGet(cl, id)
    IN  IF client.accountId # NULL /\ client.accountId \in DOMAIN accts
        THEN [clients |-> cl, accounts |-> accts, accountId |-> client.accountId]
        ELSE [clients |-> MapSet(cl, id, [client EXCEPT !.accountId = newAccount]),
              accounts |-> FnSet(accts, newAccount, [name |-> "Guest", isNew |-> TRUE]),
              accountId |-> newAccount]
\* The onConnect main.js passes: the account is resolved, the client is
\* welcomed by the account's name, the account is no longer new.
CMCustomOnConnect(cl, accts, socks, snt, id, newAccount) ==
    LET r == CMResolveAccount(cl, accts, id, newAccount)
        account == r.accounts[r.accountId]
    IN  [clients |-> r.clients,
         accounts |-> [r.accounts EXCEPT ![r.accountId].isNew = FALSE],
         sent |-> CMSend(r.clients, socks, snt, id,
                         CMMsg("welcome", NULL, NULL,
                               <<IF account.isNew THEN "Welcome" ELSE "Welcome back",
                                 account.name>>))]
\* The updateAccountName handler of main.js, before it answers.
CMUpdateAccountName(cl, accts, id, newAccount) ==
    LET r == CMResolveAccount(cl, accts, id, newAccount)
    IN  [clients |-> r.clients,
         accounts |-> [r.accounts EXCEPT ![r.accountId].name = "renamed"]]

\* What the handler of a type sends.
CMDispatch(cl, socks, snt, id, type) ==
    CASE type = "init" ->
           CMSend(cl, socks, snt, id, CMMsg("init", id, MapGet(cl, id).clientSecret, <<>>))
      [] type = "message" ->
           CMSend(cl, socks, snt, id, CMMsg("message", NULL, NULL, <<"Message received!">>))
      [] type = "broadcast" ->
           CMBroadcast(cl, socks, snt, CMMsg("broadcast", NULL, NULL, <<"content">>), 1)
      [] type = "alive" -> snt
      [] type = "updateAccountName" ->
           CMSend(cl, socks, snt, id,
                  CMMsg("message", NULL, NULL, <<"Account name updated">>))
      [] OTHER ->
           CMSend(cl, socks, snt, id,
                  CMMsg("error", NULL, NULL, <<"Unsupported message type", type>>))

CMConnect(w) ==
    /\ cmRunning
    /\ cmSockets[w] = "NONE"
    /\ \A v \in 1 .. (w - 1) : cmSockets[v] # "NONE"
    /\ cmSockets' = [cmSockets EXCEPT ![w] = "OPEN"]
    /\ UNCHANGED <<cmNow, cmRunning, cmWebSocket, cmClients, cmWsToClientId,
                   secretToClientId, cmDisk, cmSent, cmReceived, cmAccounts,
                   cmHandled, cmEvicted>>
    /\ UNCHANGED notCMVars

CMClose(w) ==
    /\ cmRunning
    /\ cmSockets[w] \in {"OPEN", "CLOSING"}
    /\ cmSockets' = [cmSockets EXCEPT ![w] = "CLOSED"]
    /\ UNCHANGED <<cmNow, cmRunning, cmWebSocket, cmClients, cmWsToClientId,
                   secretToClientId, cmDisk, cmSent, cmReceived, cmAccounts,
                   cmHandled, cmEvicted>>
    /\ UNCHANGED notCMVars

CMClockAdvance ==
    /\ cmRunning
    /\ cmNow < MaxCMClockSteps * CMClockStep
    /\ cmNow' = cmNow + CMClockStep
    /\ UNCHANGED <<cmRunning, cmWebSocket, cmSockets, cmClients, cmWsToClientId,
                   secretToClientId, cmDisk, cmSent, cmReceived, cmAccounts,
                   cmHandled, cmEvicted>>
    /\ UNCHANGED notCMVars

\* handleMessageFromSocket(ws, message). Where the runtime has no global
\* WebSocket, the first send or broadcast throws a ReferenceError: what was
\* assigned before it stays, nothing is sent, and the exception leaves the
\* function (the caller may catch it, or the process dies).
CMReceive(w, m) ==
    /\ cmRunning
    /\ cmSockets[w] = "OPEN"
    /\ cmReceived < MaxCMMessages
    /\ cmReceived' = cmReceived + 1
    /\ \E newId \in CMIdPool : \E newSecret \in CMSecretPool :
       \E newAccount \in CMAccountPool :
          LET r == CMResolveClient(w, m, newId, newSecret)
              threwInResolve == r.connected /\ ~cmWebSocket
              defaultSent == IF r.connected
                             THEN CMOnConnect(r.clients, cmSockets, cmSent, r.id)
                             ELSE cmSent
              connected == IF r.connected /\ cmWebSocket
                           THEN CMCustomOnConnect(r.clients, cmAccounts, cmSockets,
                                                  defaultSent, r.id, newAccount)
                           ELSE [clients |-> r.clients, accounts |-> cmAccounts,
                                 sent |-> cmSent]
              stamped == MapSet(connected.clients, r.id,
                                [MapGet(connected.clients, r.id) EXCEPT !.lastSeen = cmNow])
              handled == IF m.type = "updateAccountName"
                         THEN CMUpdateAccountName(stamped, connected.accounts, r.id,
                                                  newAccount)
                         ELSE [clients |-> stamped, accounts |-> connected.accounts]
              threw == threwInResolve \/ (~cmWebSocket /\ m.type # "alive")
          IN  /\ cmWsToClientId' = r.w2c
              /\ secretToClientId' = r.s2c
              /\ cmDisk' = r.disk
              /\ cmClients' = IF threwInResolve THEN r.clients ELSE handled.clients
              /\ cmAccounts' = IF threwInResolve THEN cmAccounts ELSE handled.accounts
              /\ cmHandled' = IF ~threwInResolve /\ m.type \in CMHandlerTypes
                              THEN Append(cmHandled, [type |-> m.type, clientId |-> r.id])
                              ELSE cmHandled
              /\ cmSent' = IF cmWebSocket
                           THEN CMDispatch(handled.clients, cmSockets, connected.sent,
                                           r.id, m.type)
                           ELSE cmSent
              /\ IF threw THEN cmRunning' \in BOOLEAN ELSE cmRunning' = TRUE
    /\ UNCHANGED <<cmNow, cmWebSocket, cmSockets, cmEvicted>>
    /\ UNCHANGED notCMVars

CMTimedOut(client, t) == t - client.lastSeen > CMKeepAliveTimeout
\* checkInactiveClients over the timed-out ids (entries i and after of ids):
\* removeClient broadcasts "disconnected", closes the transport and deletes
\* the client and its transport's entry.
RECURSIVE CMRemoveInactive(_, _, _, _, _, _)
CMRemoveInactive(cl, w2c, socks, snt, ids, i) ==
    IF i > Len(ids) THEN [clients |-> cl, w2c |-> w2c, socks |-> socks, sent |-> snt]
    ELSE LET id == ids[i]
             w == MapGet(cl, id).ws
         IN  CMRemoveInactive(
                 MapDelete(cl, id),
                 FnDelete(w2c, w),
                 IF socks[w] = "OPEN" THEN [socks EXCEPT ![w] = "CLOSING"] ELSE socks,
                 CMBroadcast(cl, socks, snt, CMMsg("disconnected", id, NULL, <<>>), 1),
                 ids, i + 1)

\* The update interval. Without a global WebSocket the broadcast of the first
\* removeClient throws out of the interval callback and the process dies.
CMUpdate ==
    /\ cmRunning
    /\ LET inactive == SelectSeq(cmClients, LAMBDA e : CMTimedOut(e.v, cmNow))
           ids == [i \in DOMAIN inactive |-> inactive[i].k]
           out == CMRemoveInactive(cmClients, cmWsToClientId, cmSockets, cmSent, ids, 1)
           secrets == {inactive[i].v.clientSecret : i \in DOMAIN inactive}
           accountOf(x) ==
               inactive[CHOOSE i \in DOMAIN inactive : inactive[i].v.clientSecret = x].v.accountId
       IN  IF ids # <<>> /\ ~cmWebSocket
           THEN /\ cmRunning' = FALSE
                /\ UNCHANGED <<cmClients, cmWsToClientId, cmSockets, cmSent, cmEvicted>>
           ELSE /\ cmClients' = out.clients
                /\ cmWsToClientId' = out.w2c
                /\ cmSockets' = out.socks
                /\ cmSent' = out.sent
                /\ cmEvicted' = [x \in (DOMAIN cmEvicted) \cup secrets |->
                                    IF x \in secrets THEN accountOf(x) ELSE cmEvicted[x]]
                /\ UNCHANGED cmRunning
    /\ UNCHANGED <<cmNow, cmWebSocket, secretToClientId, cmDisk, cmReceived,
                   cmAccounts, cmHandled>>
    /\ UNCHANGED notCMVars

CMInit ==
    /\ cmNow = 0
    /\ cmRunning = TRUE
    /\ cmWebSocket \in BOOLEAN
    /\ cmSockets = [w \in WsIds |-> "NONE"]
    /\ cmClients = <<>>
    /\ cmWsToClientId = EmptyFn
    /\ secretToClientId = EmptyFn
    /\ cmDisk \in CMDisks
    /\ cmSent = [w \in WsIds |-> <<>>]
    /\ cmReceived = 0
    /\ cmAccounts = EmptyFn
    /\ cmHandled = <<>>
    /\ cmEvicted = EmptyFn
InitCM == GSInit /\ diskClients = {} /\ StoreIdle /\ SMIdle /\ CMInit /\ FrIdle /\ SvIdle /\ P1Idle
NextCM ==
    \/ \E w \in WsIds : CMConnect(w)
    \/ \E w \in WsIds : CMClose(w)
    \/ CMClockAdvance
    \/ \E w \in WsIds : \E m \in CMInbound : CMReceive(w, m)
    \/ CMUpdate
SpecCM == InitCM /\ [][NextCM]_vars

\* C19: a message whose type is not init, arriving on a connection that
\* resolves to no client, creates no client (in clients or on disk), invokes
\* no handler and sends nothing to any other connection.
C19_UnboundNonInitCreatesNothing ==
    [][\A w \in WsIds : \A m \in CMInbound :
          (/\ CMReceive(w, m)
           /\ m.type # "init"
           /\ ~(w \in DOMAIN cmWsToClientId /\ MapHas(cmClients, cmWsToClientId[w]))) =>
              /\ {cmClients'[i].k : i \in DOMAIN cmClients'}
                     = {cmClients[i].k : i \in DOMAIN cmClients}
              /\ cmDisk' = cmDisk
              /\ cmHandled' = cmHandled
              /\ \A v \in WsIds \ {w} : cmSent'[v] = cmSent[v]]_vars

\* C20: a message whose type has no handler, on any open connection, has the
\* error reply that names the type batched for a client on that connection,
\* and the connection stays open.
C20_UnknownTypeIsAnsweredWithError ==
    [][\A w \in WsIds :
          SMReceive(w, [type |-> "dance", clientId |-> NULL]) =>
              /\ smSockets'[w] = "OPEN"
              /\ \E i \in DOMAIN smClients' :
                     /\ smClients'[i].v.ws = w
                     /\ \E j \in DOMAIN smClients'[i].v.batchedMessages :
                            smClients'[i].v.batchedMessages[j]
                                = SMReply("error", NULL, <<"Unsupported message type", "dance">>)]_vars

\* C24: the init response of a handleInit carries clientSecret exactly when
\* that handleInit created the client record (generateId ran); then it is the
\* new client's secret. A rejoin and a restore from disk answer without it.
C24_SecretOnlyOnCreation ==
    [][lastInit' # lastInit =>
          LET response == Head(lastInit'.queued)
          IN  /\ response.type = "init"
              /\ (response.clientSecret # NULL) <=> (generated' # generated)
              /\ response.clientSecret # NULL =>
                     response.clientSecret
                         = heap'[MapGet(clients', lastInit'.clientId)].secret
              /\ lastInit'.prior # "none" => response.clientSecret = NULL]_vars
\* A client was created in this run, and the last init restored a client
\* from disk and was answered without a secret.
C24_RestoredFromDiskWithoutSecret ==
    /\ lastInit.done
    /\ lastInit.prior = "disk"
    /\ generated # {}
    /\ Head(lastInit.queued).clientSecret = NULL

\* C26: a connection is accepted only when loadObjects has loaded every
\* persisted object, and the queue of every init that is not a rejoin holds
\* the snapshot of every persisted object.
C26_NoClientBeforeWorldIsLoaded ==
    /\ (\E w \in WsIds : sockets[w].readyState # "NONE") => loadIdx = Len(DiskObjects)
    /\ (lastInit.done /\ ~lastInit.rejoin) =>
           \A i \in DOMAIN DiskObjects :
               \E j \in DOMAIN lastInit.queued :
                   lastInit.queued[j] = StreamJSON(DiskObjects[i])

\* C28: while every client in memory was restored from disk (generateId has
\* created none), the Maps never hold two distinct client records with the
\* same id, whatever the interleaving of the disk lookups: the records that
\* key wsByClient and bufferByClient stand for different clients, and every
\* record with a queued message is the one clients holds for its id.
C28_OneRecordPerClient ==
    generated = {} =>
        /\ \A r1, r2 \in (DOMAIN wsByClient) \cup (DOMAIN bufferByClient) :
               heap[r1].id = heap[r2].id => r1 = r2
        /\ \A r \in DOMAIN bufferByClient :
               bufferByClient[r] # <<>> =>
                   (MapHas(clients, heap[r].id) /\ MapGet(clients, heap[r].id) = r)

\* The client a transport's secret resolves to, as handleMessage and
\* handleDisconnect resolve it.
BoundTo(socks, bySecret, w) ==
    IF socks[w].secret \in DOMAIN bySecret THEN bySecret[socks[w].secret] ELSE 0
\* C29: at most one open connection routes to a client, the one wsByClient
\* holds for it; and the close event of another connection emits no
\* "clientDisconnect" for a client whose current transport is open.
C29_OneConnectionPerClient ==
    /\ [](\A w \in WsIds :
              (sockets[w].readyState = "OPEN" /\ BoundTo(sockets, clientBySecret, w) # 0) =>
                  wsByClient[BoundTo(sockets, clientBySecret, w)] = w)
    /\ [][\A w \in WsIds :
              (CloseEvent(w) /\ emitted' # emitted) =>
                  LET ref == BoundTo(sockets, clientBySecret, w)
                  IN  wsByClient[ref] = w \/ sockets[wsByClient[ref]].readyState # "OPEN"]_vars

\* C30: an init that resolves to an existing client (its clientId is a key of
\* clients) keeps what is batched for that client: the batch after the init
\* is the batch before it with the init reply appended.
C30_InitKeepsQueuedMessages ==
    [][\A w \in WsIds : \A id \in SMIdPool :
          (SMReceive(w, [type |-> "init", clientId |-> id]) /\ MapHas(smClients, id)) =>
              MapGet(smClients', id).batchedMessages
                  = Append(MapGet(smClients, id).batchedMessages,
                           SMReply("init", id, <<>>))]_vars

C23_ReconnectRestoresTheAccount ==
    [][\A w \in WsIds : \A m \in CMInbound :
          (/\ CMReceive(w, m)
           /\ cmWebSocket
           /\ m.clientSecret \in DOMAIN cmEvicted
           /\ cmEvicted[m.clientSecret] # NULL
           /\ ~(w \in DOMAIN cmWsToClientId /\ MapHas(cmClients, cmWsToClientId[w]))) =>
              /\ DOMAIN cmAccounts' = DOMAIN cmAccounts
              /\ \E i \in DOMAIN cmClients' :
                     /\ cmClients'[i].v.ws = w
                     /\ cmClients'[i].v.clientSecret = m.clientSecret
                     /\ cmClients'[i].v.accountId = cmEvicted[m.clientSecret]]_vars

(***************************************************************************)
(* GameServer, frame by frame (src/unnamed/part_002, lines 61-154).         *)
(* handleConnection splits a frame into sub-messages and gives each to its  *)
(* own async callback. The callbacks run one after the other up to their    *)
(* first wait; what waits for a resolved promise goes on once the last      *)
(* callback has returned, what waits for the disk goes on in a later turn   *)
(* of the event loop. The world is loaded and the "connected" listener is   *)
(* registered. The clock does not advance, so lastSeen is left out.         *)
(***************************************************************************)
MaxFrames == 2        \* frames received during a run
MaxSubMessages == 2   \* sub-messages of one frame

\* An unhandled rejection is only reported ("warn") or raised as an uncaught
\* exception ("throw"), depending on the runtime and its flags.
FrRuntimes == {"warn", "throw"}

\* The text between two line breaks: valid tells whether JSON.parse accepts
\* it, type and clientSecret are what the parsed message carries.
FrBad == [valid |-> FALSE, type |-> NULL, clientSecret |-> NULL]
FrSubMessages ==
    {FrBad}
        \cup {[valid |-> TRUE, type |-> "init", clientSecret |-> x] : x \in {NULL, "s1"}}
        \cup {[valid |-> TRUE, type |-> "chat", clientSecret |-> NULL]}
\* msg.split("\n"): the sub-messages of a frame, in order.
FrFrames == UNION {[1 .. n -> FrSubMessages] : n \in 1 .. MaxSubMessages}

\* JSON.parse of a sub-message that is valid JSON.
FrParse(sub) == [type |-> sub.type, clientSecret |-> sub.clientSecret]

\* generateId: a string that is not in usedIds. The strings are told apart
\* only by equality, so the first unused one of the pool stands for any.
FrIdPool == <<"n01", "n02", "n03", "n04", "n05", "n06",
              "n07", "n08", "n09", "n10", "n11", "n12">>
FrGenerateId(used) ==
    FrIdPool[CHOOSE i \in DOMAIN FrIdPool :
                /\ FrIdPool[i] \notin used
                /\ \A j \in 1 .. (i - 1) : FrIdPool[j] \in used]

\* The server's Maps and the observations as one value; micro holds the
\* handleMessage calls that wait for a handleInit that has already returned.
FrState ==
    [disk |-> frDisk, used |-> frUsedIds, heap |-> frHeap, clients |-> frClients,
     bySecret |-> frBySecret, wsByClient |-> frWsByClient, buffers |-> frBuffers,
     wsSecret |-> frWsSecret, pending |-> frPending, emitted |-> frEmitted,
     dropped |-> frDropped, rejected |-> frRejected, micro |-> <<>>]

FrEvent(at, type, ref) == [frame |-> at.frame, idx |-> at.idx, type |-> type, ref |-> ref]

\* What handleInit queues: the init response, then the "connected" listener's
\* welcome (unless a rejoin) and the snapshot of every object.
FrInitQueue(id, secret, isNew, isRejoin) ==
    <<InitResponse(id, IF isNew THEN secret ELSE NULL, isRejoin)>>
        \o (IF isRejoin THEN <<>> ELSE <<WelcomeMessage(id, isNew)>>)
        \o [i \in DOMAIN DiskObjects |-> StreamJSON(DiskObjects[i])]

\* handleInit from line 137 on: the client object ref is registered on
\* transport w, the response is queued and "connected" is emitted.
FrRegister(G, w, at, ref, id, secret, isNew, isRejoin) ==
    LET old == IF ref \in DOMAIN G.buffers THEN G.buffers[ref] ELSE <<>>
    IN  [G EXCEPT !.heap = FnSet(G.heap, ref, [id |-> id, secret |-> secret]),
                  !.buffers = FnSet(G.buffers, ref,
                                    old \o FrInitQueue(id, secret, isNew, isRejoin)),
                  !.clients = FnSet(G.clients, id, ref),
                  !.bySecret = FnSet(G.bySecret, secret, ref),
                  !.wsByClient = FnSet(G.wsByClient, ref, w),
                  !.wsSecret = [G.wsSecret EXCEPT ![w] = secret],
                  !.emitted = Append(G.emitted, FrEvent(at, "connected", ref))]

FrNewRef(G) == Cardinality(DOMAIN G.heap) + 1

\* generateId twice (id, then secret), persistClient, and the registration.
FrCreateClient(G, w, at) ==
    LET id == FrGenerateId(G.used)
        secret == FrGenerateId(G.used \cup {id})
        G1 == [G EXCEPT !.used = G.used \cup {id, secret},
                        !.disk = G.disk \cup {[id |-> id, secret |-> secret]}]
    IN  FrRegister(G1, w, at, FrNewRef(G1), id, secret, TRUE, FALSE)

\* handleInit up to its return or its first wait: client is the object it
\* returns, 0 while it waits for the directory read.
FrHandleInit(G, w, at, message) ==
    IF message.clientSecret # NULL /\ message.clientSecret \in DOMAIN G.bySecret
    THEN LET ref == G.bySecret[message.clientSecret]
         IN  [state |-> FrRegister(G, w, at, ref, G.heap[ref].id, G.heap[ref].secret,
                                   FALSE, TRUE),
              client |-> ref]
    ELSE IF message.clientSecret # NULL
    THEN [state |-> [G EXCEPT !.pending =
                        G.pending \cup {[ws |-> w, secret |-> message.clientSecret,
                                         frame |-> at.frame, idx |-> at.idx]}],
          client |-> 0]
    ELSE LET G1 == FrCreateClient(G, w, at)
         IN  [state |-> G1, client |-> G1.bySecret[G1.wsSecret[w]]]

\* handleMessage up to its return or its first wait. An init waits for
\* handleInit even when that has returned; any other message is resolved
\* from ws.secret at once and emitted, or given up.
FrHandleMessage(G, w, at, message) ==
    IF message.type = "init"
    THEN LET r == FrHandleInit(G, w, at, message)
         IN  IF r.client = 0
             THEN r.state
             ELSE [r.state EXCEPT !.micro = Append(r.state.micro,
                                                   FrEvent(at, "init", r.client))]
    ELSE IF G.wsSecret[w] \in DOMAIN G.bySecret
    THEN [G EXCEPT !.emitted = Append(G.emitted,
                                      FrEvent(at, message.type, G.bySecret[G.wsSecret[w]]))]
    ELSE [G EXCEPT !.dropped = G.dropped \cup {[frame |-> at.frame, idx |-> at.idx]}]

\* The async callback of forEach: JSON.parse throws inside it, which rejects
\* the promise the callback returns; nothing handles that promise.
FrCallback(G, w, at, sub) ==
    IF sub.valid
    THEN FrHandleMessage(G, w, at, FrParse(sub))
    ELSE [G EXCEPT !.rejected = G.rejected \cup {[frame |-> at.frame, idx |-> at.idx]}]

RECURSIVE FrForEach(_, _, _, _, _)
FrForEach(G, w, f, subs, i) ==
    IF i > Len(subs)
    THEN G
    ELSE FrForEach(FrCallback(G, w, [frame |-> f, idx |-> i], subs[i]), w, f, subs, i + 1)

\* The handleMessage calls that waited for a returned handleInit go on, in
\* order: client.lastSeen is stamped and the message is emitted.
FrResume(G) == [G EXCEPT !.emitted = G.emitted \o G.micro, !.micro = <<>>]

FrApply(G) ==
    /\ frDisk' = G.disk
    /\ frUsedIds' = G.used
    /\ frHeap' = G.heap
    /\ frClients' = G.clients
    /\ frBySecret' = G.bySecret
    /\ frWsByClient' = G.wsByClient
    /\ frBuffers' = G.buffers
    /\ frWsSecret' = G.wsSecret
    /\ frPending' = G.pending
    /\ frEmitted' = G.emitted
    /\ frDropped' = G.dropped
    /\ frRejected' = G.rejected

\* The "message" event of transport w. The try block ends when forEach has
\* started every callback, so its catch sees none of their rejections. Once
\* the continuations have run, a runtime that raises unhandled rejections
\* as uncaught exceptions runs exitHandler, which exits the process.
HandleFrame(w, subs) ==
    /\ frRunning
    /\ Len(frFrames) < MaxFrames
    /\ LET G == FrResume(FrForEach(FrState, w, Len(frFrames) + 1, subs, 1)) IN
        /\ FrApply(G)
        /\ frRunning' = ~(frRuntime = "throw" /\ G.rejected # frRejected)
    /\ frFrames' = Append(frFrames, [ws |-> w, subs |-> subs])
    /\ UNCHANGED frRuntime
    /\ UNCHANGED notFrVars

\* The directory read of a waiting handleInit returns: the file whose name
\* ends with "-<secret>.json" is parsed into a new client object, with no
\* such file a new client is created; then handleMessage goes on.
LookupDone(p) ==
    /\ frRunning
    /\ p \in frPending
    /\ LET at == [frame |-> p.frame, idx |-> p.idx]
           G0 == [FrState EXCEPT !.pending = frPending \ {p}]
           matching == {c \in G0.disk : c.secret = p.secret}
       IN  IF matching # {}
           THEN \E c \in matching :
                    LET G1 == FrRegister(G0, p.ws, at, FrNewRef(G0), c.id, c.secret,
                                         FALSE, FALSE)
                    IN  FrApply([G1 EXCEPT !.emitted =
                                    Append(G1.emitted, FrEvent(at, "init", FrNewRef(G0)))])
           ELSE LET G1 == FrCreateClient(G0, p.ws, at)
                IN  FrApply([G1 EXCEPT !.emitted =
                                Append(G1.emitted, FrEvent(at, "init", FrNewRef(G0)))])
    /\ UNCHANGED <<frRuntime, frRunning, frFrames>>
    /\ UNCHANGED notFrVars

\* After start-up: the ids of the persisted clients and of the loaded
\* objects are in usedIds.
FrInit ==
    /\ frRuntime \in FrRuntimes
    /\ frRunning = TRUE
    /\ frDisk \in PersistedClientSets
    /\ frUsedIds = {c.id : c \in frDisk} \cup {DiskObjects[i].id : i \in DOMAIN DiskObjects}
    /\ frHeap = EmptyFn
    /\ frClients = EmptyFn
    /\ frBySecret = EmptyFn
    /\ frWsByClient = EmptyFn
    /\ frBuffers = EmptyFn
    /\ frWsSecret = [w \in WsIds |-> NULL]
    /\ frPending = {}
    /\ frFrames = <<>>
    /\ frEmitted = <<>>
    /\ frDropped = {}
    /\ frRejected = {}

InitFrame == GSInit /\ diskClients = {} /\ StoreIdle /\ SMIdle /\ CMIdle /\ FrInit /\ SvIdle /\ P1Idle
NextFrame ==
    \/ \E w \in WsIds : \E subs \in FrFrames : HandleFrame(w, subs)
    \/ \E p \in frPending : LookupDone(p)
SpecFrame == InitFrame /\ [][NextFrame]_vars

\* What has become of sub-message i of frame f.
FrHandled(f, i) ==
    \/ \E k \in DOMAIN frEmitted : frEmitted[k].frame = f /\ frEmitted[k].idx = i
    \/ [frame |-> f, idx |-> i] \in frDropped
FrWaiting(f, i) == \E p \in frPending : p.frame = f /\ p.idx = i

\* C21: in every frame received that holds a sub-message that fails to
\* parse, every other sub-message has been decoded and handled by
\* handleMessage, or is an init that waits for its directory read in a
\* process that is still running.
C21_ParseFailureLeavesTheOthersAlone ==
    \A f \in DOMAIN frFrames :
        (\E j \in DOMAIN frFrames[f].subs : ~frFrames[f].subs[j].valid) =>
            \A i \in DOMAIN frFrames[f].subs :
                frFrames[f].subs[i].valid =>
                    FrHandled(f, i) \/ (FrWaiting(f, i) /\ frRunning)

\* C22: when a frame holds a sub-message that is not valid JSON, handling the
\* frame leaves the server running and queues an error message for the
\* client of the connection the frame came in on.
C22_InvalidJsonIsAnsweredWithError ==
    [][Len(frFrames') > Len(frFrames) =>
          LET frame == frFrames'[Len(frFrames')] IN
              (\E j \in DOMAIN frame.subs : ~frame.subs[j].valid) =>
                  /\ frRunning'
                  /\ \E ref \in DOMAIN frBuffers' :
                         /\ frWsByClient'[ref] = frame.ws
                         /\ \E k \in DOMAIN frBuffers'[ref] :
                                frBuffers'[ref][k].type = "error"]_vars

\* C27: when a frame holds an init and, later in the frame, a message of
\* another type with no init in between, the later message is never given
\* up as unresolvable, and whenever it has been emitted, the "connected" of
\* that init came before it and named the client the message was routed to.
C27_LaterMessageFollowsTheInit ==
    \A f \in DOMAIN frFrames :
        \A i, j \in DOMAIN frFrames[f].subs :
            (/\ i < j
             /\ frFrames[f].subs[i].valid /\ frFrames[f].subs[i].type = "init"
             /\ frFrames[f].subs[j].valid /\ frFrames[f].subs[j].type # "init"
             /\ \A m \in (i + 1) .. (j - 1) :
                    ~(frFrames[f].subs[m].valid /\ frFrames[f].subs[m].type = "init")) =>
                /\ [frame |-> f, idx |-> j] \notin frDropped
                /\ \A k \in DOMAIN frEmitted :
                       (frEmitted[k].frame = f /\ frEmitted[k].idx = j) =>
                           \E k0 \in 1 .. (k - 1) :
                               /\ frEmitted[k0] = [frame |-> f, idx |-> i,
                                                   type |-> "connected",
                                                   ref |-> frEmitted[k].ref]

(***************************************************************************)
(* The clients of src/server.js (lines 350-367 and 447-512). Nothing loads  *)
(* a client and handleInit cannot make one, so the Maps start empty.        *)
(***************************************************************************)
SvState ==
    [so |-> secret_object, soc |-> secret_object_connected, buf |-> id_buffer,
     idws |-> id_ws, wsSecret |-> svWsSecret, emitted |-> svEmitted,
     rejected |-> FALSE]

\* The "connected" listener: a welcome unless the init was a rejoin, then
\* every entry of state.id_dirty.
SvOnConnected(clientId, isNew, isRejoin) ==
    (IF isRejoin THEN <<>> ELSE <<WelcomeMessage(clientId, isNew)>>)
        \o [i \in DOMAIN id_dirty |->
                [type |-> "object", clientId |-> NULL, clientSecret |-> NULL,
                 rejoin |-> FALSE, content |-> NULL, o |-> id_dirty[i].v]]

\* handleInit, called without await. With the secret of a known client it
\* runs to its end at once: the client's buffer is replaced by [] (line 478
\* looks the object up among the ids), the Maps and ws.secret are set and the
\* response and the listener's messages are queued. Otherwise line 472
\* reads this.generateId with this undefined: the promise is rejected.
SvHandleInit(S, w, message) ==
    IF message.clientSecret # NULL /\ message.clientSecret \in DOMAIN S.so
    THEN LET client == S.so[message.clientSecret]
             isRejoin == message.clientSecret \in DOMAIN S.soc
         IN  [ok |-> TRUE,
              state |-> [S EXCEPT
                  !.buf = FnSet(S.buf, client.id,
                                <<InitResponse(client.id, NULL, isRejoin)>>
                                    \o SvOnConnected(client.id, FALSE, isRejoin)),
                  !.soc = FnSet(S.soc, client.secret, client.id),
                  !.idws = FnSet(S.idws, client.id, w),
                  !.wsSecret = [S.wsSecret EXCEPT ![w] = client.secret]]]
    ELSE [ok |-> FALSE, state |-> S]

\* resolveClient and the rest of the forEach callback. For an init the
\* "client" is the promise handleInit returned: lastSeen is set on the
\* promise and the event is emitted at once. Any other message is resolved
\* from ws.secret, stamped and emitted, or given up.
SvResolveClient(S, w, sub) ==
    IF ~sub.valid
    THEN [S EXCEPT !.rejected = TRUE]
    ELSE IF sub.type = "init"
    THEN LET r == SvHandleInit(S, w, FrParse(sub))
         IN  [r.state EXCEPT
                 !.emitted = Append(r.state.emitted,
                                    [ws |-> w, type |-> "init", client |-> "promise"]),
                 !.rejected = S.rejected \/ ~r.ok]
    ELSE IF S.wsSecret[w] \in DOMAIN S.so
    THEN [S EXCEPT !.so[S.wsSecret[w]].lastSeen = svNow,
                   !.emitted = Append(S.emitted,
                                      [ws |-> w, type |-> sub.type,
                                       client |-> S.so[S.wsSecret[w]].id])]
    ELSE S

RECURSIVE SvForEach(_, _, _, _)
SvForEach(S, w, subs, i) ==
    IF i > Len(subs) THEN S ELSE SvForEach(SvResolveClient(S, w, subs[i]), w, subs, i + 1)

\* handleMessage: one frame of transport w. No handler for uncaught
\* exceptions is registered, so a runtime that raises an unhandled rejection
\* ends the process.
SvHandleMessage(w, subs) ==
    /\ svRunning
    /\ svReceived < MaxMessages
    /\ svReceived' = svReceived + 1
    /\ LET S == SvForEach(SvState, w, subs, 1) IN
        /\ secret_object' = S.so
        /\ secret_object_connected' = S.soc
        /\ id_buffer' = S.buf
        /\ id_ws' = S.idws
        /\ svWsSecret' = S.wsSecret
        /\ svEmitted' = S.emitted
        /\ svRunning' = ~(svRuntime = "throw" /\ S.rejected)
    /\ UNCHANGED <<svRuntime, svNow>>
    /\ UNCHANGED notSvVars

SvClockAdvance ==
    /\ svRunning
    /\ svNow < MaxClockSteps * ClockStep
    /\ svNow' = svNow + ClockStep
    /\ UNCHANGED <<svRuntime, svRunning, secret_object, secret_object_connected,
                   id_buffer, id_ws, svWsSecret, svReceived, svEmitted>>
    /\ UNCHANGED notSvVars

SvInit ==
    /\ svRuntime \in FrRuntimes
    /\ svRunning = TRUE
    /\ svNow = 0
    /\ secret_object = EmptyFn
    /\ secret_object_connected = EmptyFn
    /\ id_buffer = EmptyFn
    /\ id_ws = EmptyFn
    /\ svWsSecret = [w \in WsIds |-> NULL]
    /\ svReceived = 0
    /\ svEmitted = <<>>

InitSv == GSInit /\ diskClients = {} /\ StoreIdle /\ SMIdle /\ CMIdle /\ FrIdle /\ SvInit /\ P1Idle
NextSv ==
    \/ \E w \in WsIds : \E subs \in FrFrames : SvHandleMessage(w, subs)
    \/ SvClockAdvance
SpecSv == InitSv /\ [][NextSv]_vars

\* C31: whenever the type event of a message is emitted, the message has
\* been resolved to a client record, the record is the one bound to the
\* transport the message came in on, and its lastSeen is the present time.
C31_RoutedMessageStampsItsClient ==
    [][\A k \in (Len(svEmitted) + 1) .. Len(svEmitted') :
          LET e == svEmitted'[k] IN
              /\ svWsSecret'[e.ws] \in DOMAIN secret_object'
              /\ secret_object'[svWsSecret'[e.ws]].id = e.client
              /\ secret_object'[svWsSecret'[e.ws]].lastSeen = svNow]_vars

\* C32: a client record leaves this.clients only when more than
\* keepAliveTimeout has passed since its lastSeen; lastSeen changes only to
\* the present time, and every message routed for a client (an init that
\* completes, or another message resolved from ws.secret) sets it.
C32_EvictionOnlyAfterTimeout ==
    [][/\ \A i \in DOMAIN clients :
              ~MapHas(clients', clients[i].k) =>
                  now - heap[clients[i].v].lastSeen > KeepAliveTimeout
       /\ \A ref \in (DOMAIN heap) \cap (DOMAIN heap') :
              heap'[ref].lastSeen # heap[ref].lastSeen => heap'[ref].lastSeen = now
       /\ \A w \in WsIds :
              (HandleMessage(w) /\ sockets[w].secret \in DOMAIN clientBySecret) =>
                  heap'[clientBySecret[sockets[w].secret]].lastSeen = now
       /\ lastInit' # lastInit =>
              heap'[MapGet(clients', lastInit'.clientId)].lastSeen = now]_vars
\* A tick has evicted a client: its transport is closing and its secret no
\* longer resolves.
C32_ClientEvictedAfterTimeout ==
    \E w \in WsIds :
        /\ sockets[w].readyState = "CLOSING"
        /\ sockets[w].secret # NULL
        /\ sockets[w].secret \notin DOMAIN clientBySecret
        /\ now > KeepAliveTimeout

\* C33: among the client records, persisted by an earlier run or created
\* in this one, no two share a secret and no record's id is the secret of
\* another.
C33_SecretsAndIdsNeverCollide ==
    \A a, b \in diskClients :
        a # b => (a.secret # b.secret /\ a.id # b.secret)

\* C34: the two tree indexes of the store agree. Every id listed in
\* id_contentIds of p is listed there once and has p as its id_parentId, and
\* every id that id_parentId maps to p is listed in id_contentIds of p.
C34_TreeIndexesAgree ==
    /\ \A p \in DOMAIN id_contentIds :
           \A k \in DOMAIN id_contentIds[p] :
               LET c == id_contentIds[p][k] IN
                   /\ c \in DOMAIN id_parentId
                   /\ id_parentId[c] = p
                   /\ \A m \in DOMAIN id_contentIds[p] :
                          id_contentIds[p][m] = c => m = k
    /\ \A c \in DOMAIN id_parentId :
           /\ id_parentId[c] \in DOMAIN id_contentIds
           /\ \E k \in DOMAIN id_contentIds[id_parentId[c]] :
                  id_contentIds[id_parentId[c]][k] = c

\* The messages queued for some client or handed to some transport.
QueuedOrSent ==
    UNION {{bufferByClient[ref][k] : k \in DOMAIN bufferByClient[ref]} :
              ref \in DOMAIN bufferByClient}
        \cup UNION {UNION {{sent[w][f][k] : k \in DOMAIN sent[w][f]} :
                              f \in DOMAIN sent[w]} : w \in WsIds}

\* C35: a message that carries the secret of a client record, in whatever
\* field, is that client's own init response.
C35_SecretOnlyInOwnInitResponse ==
    \A c \in diskClients :
        \A m \in QueuedOrSent :
            (m.clientSecret = c.secret \/ m.clientId = c.secret) =>
                /\ m.type = "init"
                /\ m.clientId = c.id
                /\ m.clientSecret = c.secret

(***************************************************************************)
(* The GameServer of src/unnamed/part_001, once init() has returned.        *)
(* this.clients is filled by loadAllData and by nothing else; ws.secret is  *)
(* read and never assigned.                                                 *)
(***************************************************************************)
\* generateId: Math.random, checked against nothing.
P1IdPool == {"i1", "i2"}
P1SecretPool == {"s1", "s2"}
P1Persisted == [id |-> "i1", secret |-> "s1"]
P1Disks == {EmptyFn, [x \in {"i1"} |-> P1Persisted]}

\* The parsed messages a connection sends.
P1Inbound ==
    [type : {"init", "action"}, clientSecret : {NULL} \cup P1SecretPool]

\* resolveClient: ws.secret is undefined, so the secret is the message's;
\* the client of this.clients that has it, else a new one (id and secret
\* as given), which is persisted and not put into this.clients.
P1ResolveClient(message, id, secret) ==
    LET found == {x \in DOMAIN p1Clients : p1Clients[x].secret = message.clientSecret}
    IN  IF found # {}
        THEN [client |-> p1Clients[CHOOSE x \in found : TRUE], disk |-> p1Disk]
        ELSE LET client == [id |-> id, secret |-> secret]
             IN  [client |-> client, disk |-> FnSet(p1Disk, id, client)]

\* The "message" event of transport w with a message that parses:
\* handleMessage resolves the client, answers an init, leaves an action
\* without an account alone, and persists the client.
P1HandleMessage(w, message) ==
    /\ Len(p1Resolved[1]) + Len(p1Resolved[2]) < MaxMessages
    /\ \E id \in P1IdPool : \E secret \in P1SecretPool :
        LET r == P1ResolveClient(message, id, secret) IN
            /\ p1Disk' = FnSet(r.disk, r.client.id, r.client)
            /\ p1Sent' = IF message.type = "init"
                         THEN [p1Sent EXCEPT ![w] =
                                 Append(@, CMMsg("init", r.client.id, r.client.secret, <<>>))]
                         ELSE p1Sent
            /\ p1Resolved' = [p1Resolved EXCEPT ![w] =
                                 Append(@, [type |-> message.type, id |-> r.client.id])]
    /\ UNCHANGED p1Clients
    /\ UNCHANGED notP1Vars

\* loadAllData has read the client files into this.clients.
P1Init ==
    /\ p1Disk \in P1Disks
    /\ p1Clients = p1Disk
    /\ p1Sent = [w \in WsIds |-> <<>>]
    /\ p1Resolved = [w \in WsIds |-> <<>>]

InitP1 == GSInit /\ diskClients = {} /\ StoreIdle /\ SMIdle /\ CMIdle /\ FrIdle /\ SvIdle /\ P1Init
NextP1 == \E w \in WsIds : \E message \in P1Inbound : P1HandleMessage(w, message)
SpecP1 == InitP1 /\ [][NextP1]_vars

\* C36: on every connection, each message after an init resolves to the
\* client the init resolved to, and once a message has resolved to a client
\* no later message of the connection makes a client file that was not
\* there.
C36_ConnectionKeepsItsClient ==
    /\ [](\A w \in WsIds :
             \A i, j \in DOMAIN p1Resolved[w] :
                 (i < j /\ p1Resolved[w][i].type = "init") =>
                     p1Resolved[w][j].id = p1Resolved[w][i].id)
    /\ [][\A w \in WsIds :
              (Len(p1Resolved[w]) > 0 /\ p1Resolved'[w] # p1Resolved[w]) =>
                  DOMAIN p1Disk' = DOMAIN p1Disk]_vars

\* C37: what a first join (an init that is not a rejoin) queues holds the
\* snapshot of every object of the store exactly once, and the snapshot of
\* an object that has a parent comes after the snapshot of that parent.
C37_ReplayIsCompleteAndPreOrder ==
    [][(lastInit' # lastInit /\ ~lastInit'.rejoin) =>
          LET q == lastInit'.queued
              At(object) == {j \in DOMAIN q : q[j] = StreamJSON(object)}
          IN  \A i \in DOMAIN objects' :
                  /\ Cardinality(At(objects'[i].v)) = 1
                  /\ objects'[i].v.parent # NULL =>
                         \E k \in DOMAIN objects' :
                             /\ objects'[k].k = objects'[i].v.parent
                             /\ \A j \in At(objects'[i].v) :
                                    \E j0 \in At(objects'[k].v) : j0 < j]_vars

====
